---- MODULE Spec2Model ----
(***************************************************************************)
(* Host execution engine of src/main/host/host.rs: the event queue of one  *)
(* host, the scheduling entry points (schedule_task_at_emulated_time,      *)
(* schedule_task_with_delay, push_local_event), the CPU delay model that   *)
(* execute() consults, and the execute(until) loop itself.                 *)
(*                                                                         *)
(* Event, EventQueue, Cpu and Worker are other files of the repository;    *)
(* the operators that model them follow the specification's description    *)
(* of them and say so.  Everything named after a Host method is translated *)
(* from host.rs.                                                           *)
(*                                                                         *)
(* The Host is !Sync (host.rs:95-102): every Host method runs on the       *)
(* thread that owns the host.  execute() is split at the points where a    *)
(* task, which runs on that same thread, can call back into the host.      *)
(* Spec is the host's own thread.  SpecLock is that thread between         *)
(* execute() calls with the shared-memory lock protocol, the shim and the  *)
(* drop of the host.  SpecConc is execute() with the threads of other      *)
(* hosts that push into the queue through its mutex.  SpecCounters is the  *)
(* host's counters.  SpecCpu is the host's thread with boot(), a tracker   *)
(* and a CPU of threshold 100 ns and precision 10 ns.  SpecTwin is two     *)
(* runs of that host, the second given the calls of the first.  SpecGuard  *)
(* is execute() lock by lock and borrow by borrow, with tasks that call    *)
(* back into the host and producer threads; SpecGuardFair adds that the    *)
(* threads keep running.  SpecLife is the host from Host::new to           *)
(* shutdown(): its process table and its network namespace.                *)
(***************************************************************************)
EXTENDS Integers, Sequences, FiniteSets

\* ------------------------------------------------------------------ bounds

\* params.sim_end_time: the simulation horizon.
SimEndTime == 3

\* Number of events Event::new may create (the cap on event_id_counter).
MaxEvents == 3

\* Largest delay one host_addDelayNanos call adds.
MaxAddDelay == 1

\* Cap on the delay the CPU model may owe.
MaxOwed == 2

\* params.cpu_threshold and params.cpu_precision.
CpuThreshold == 3

CpuPrecision == 2

\* Number of lock_shmem/unlock_shmem pairs the simulator goes through.
MaxLockPairs == 2

\* Latest time of an event that a producer thread pushes.
MaxProducerTime == 1

\* The u32 of process_id_counter, scaled: the number of values from the
\* first process id to the greatest value of the type (2^32 - 1000 in host.rs).
ProcessIdsToTop == 3

\* The u64 of the event id, packet id and determinism sequence counters,
\* scaled: the greatest value of the type (2^64 - 1 in host.rs).
U64Max == 3

\* The f64 of packet_priority_counter, scaled: the value from which adding 1.0
\* rounds back to the value itself (2^53 in host.rs).
F64Exact == 3

\* Number of calls made to each counter.
MaxCalls == 5

\* Number of calls made on the host in a run that is compared with another.
MaxTrace == 6

\* Times the callers pass: up to and beyond the horizon.
MaxTime == SimEndTime + 1

Times == 0 .. MaxTime

\* Option::None of an EmulatedTime.
NoTime == 0 - 1

\* No result of next_event_time() is at hand.
Stale == 0 - 2

NoEvent == [time |-> NoTime, seq |-> NoTime]

NoRet == [op |-> "none", time |-> NoTime, seq |-> NoTime, ok |-> FALSE]

NoCall == [queue |-> {}, nexec |-> 0]

NoIter == [kind |-> "none", ev |-> NoEvent, delay |-> 0, pushed |-> FALSE]

VARIABLES
    event_queue,        \* Host::event_queue: the set of pending events
    event_id_counter,   \* Host::event_id_counter
    cpu,                \* Host::cpu: the CPU delay model's state
    current_time,       \* Worker's published current time, NoTime when cleared
    pc,                 \* where the host's thread is: idle, peek, cpu, run
    until,              \* the argument of the execute() call in progress
    event,              \* the event execute() holds from its pop on
    panicked,           \* the host's thread has panicked (an unwrap on None)
    executed,           \* history: the events whose task was run, in order
    accepted,           \* history: sequences of the events a push accepted
    ret,                \* history: the last push call, its argument and result
    lastIter,           \* history: what the last loop iteration did
    dropped,            \* history: the events rejected at their re-push
    lastPop,            \* history: the event the last pop returned
    pushedSincePop,     \* history: a push happened since the last pop
    peeked,             \* history: result of the last Host::next_event_time(),
                        \*          Stale once the queue has been modified
    callStart,          \* history: queue and log length when execute() began
    callPure,           \* history: this execute() call saw no push, no delay
    pastPush,           \* history: an event was pushed below an executed key
    overtake,           \* history: <<a, b>>: a was rescheduled while b,
                        \*          ordered after a, was waiting in the queue
    shim_shmem_lock,    \* Host::shim_shmem_lock: a guard is cached
    shmem_mutex,        \* the mutex of HostShmem::protected: locked or not
    shim_holds,         \* the shim has taken the mutex and not released it
    lock_wait,          \* the host's thread is inside protected().lock()
    shmem_block,        \* Host::shim_shmem: alive, or destroyed by the drop
    lock_pairs,         \* history: completed lock_shmem/unlock_shmem pairs
    queue_mutex,        \* the threads inside a critical section of the
                        \* event queue's mutex
    input,              \* the events each producer thread has to push
    progress,           \* how many of them each producer has pushed
    local,              \* the queue as the push in progress has read it
    popped,             \* history: the events execute() popped, in order
    pushOrder,          \* history: the events in the order of their pushes
    racing,             \* history: a push ended after the first pop
    params,             \* Host::params: the HostParameters given to Host::new
    tracker,            \* Host::tracker: the tracker made by boot(), or none
    tracker_delays,     \* the delays the tracker was notified of, in order
    process_id_counter, \* Host::process_id_counter
    packet_id_counter,  \* Host::packet_id_counter
    determinism_sequence_counter,   \* Host::determinism_sequence_counter
    packet_priority_counter,        \* Host::packet_priority_counter
    issued,             \* history: the values each counter returned, in order
    cpu_borrow,         \* a RefMut of Host::cpu is alive
    processes,          \* Host::processes: the ids of the process table
    net_ns,             \* Host::net_ns: the namespace, none after shutdown()
    looked,             \* history: the last call that read the namespace
                        \*          and returned, and what it returned
    run,                \* which of two compared runs this is, 0 when the
                        \* run is not compared with another
    trace,              \* the calls made on the host in the first run
    cursor,             \* how many of them the second run has repeated
    delays,             \* history: the reschedule delays of this run
    first               \* what the first run rescheduled and executed

vars == <<event_queue, event_id_counter, cpu, current_time, pc, until, event,
          panicked, executed, accepted, ret, lastIter, dropped, lastPop,
          pushedSincePop, peeked, callStart, callPure, pastPush, overtake,
          shim_shmem_lock, shmem_mutex, shim_holds, lock_wait, shmem_block,
          lock_pairs, queue_mutex, input, progress, local, popped,
          pushOrder, racing, params, tracker, tracker_delays,
          process_id_counter, packet_id_counter,
          determinism_sequence_counter, packet_priority_counter, issued,
          cpu_borrow, processes, net_ns, looked,
          run, trace, cursor, delays, first>>

\* The shared-memory lock protocol's part of the state.
lockVars == <<shim_shmem_lock, shmem_mutex, shim_holds, lock_wait,
              shmem_block, lock_pairs>>

\* The part of the state that only the producer threads and the execute()
\* running beside them use.
concVars == <<queue_mutex, input, progress, local, popped, pushOrder,
              racing>>

\* The counters of the host, and what they have returned.
counterVars == <<process_id_counter, packet_id_counter,
                 determinism_sequence_counter, packet_priority_counter,
                 issued>>

\* What Host::new and boot() set and nothing changes afterwards.
configVars == <<params, tracker>>

\* The RefCells of the host that the event engine's steps leave as they
\* find them: the borrow of the CPU model, the process table, the namespace.
cellVars == <<cpu_borrow, processes, net_ns, looked>>

\* The parts of the host that only boot(), the counters, the tracker's
\* notification, the borrows and the host's lifecycle touch.
sideVars == <<configVars, tracker_delays, counterVars, cellVars>>

\* What the comparison of two runs keeps.
twinVars == <<run, trace, cursor, delays, first>>

\* The event engine's part of the state, but for panicked and ret.
engineVars == <<event_queue, event_id_counter, cpu, current_time, pc, until,
                event, executed, accepted, lastIter, dropped, lastPop,
                pushedSincePop, peeked, callStart, callPure, pastPush,
                overtake>>

\* ------------------------------------------------------------- Event

\* Event::new(task, time, src_host, dst_host_id): the sequence is taken from
\* the host's event id counter at creation.
Event_new(t, id) == [time |-> t, seq |-> id]

\* The ordering key of an event: (time, sequence).
KeyLess(a, b) == a.time < b.time \/ (a.time = b.time /\ a.seq < b.seq)

KeyLeq(a, b) == a = b \/ KeyLess(a, b)

\* ------------------------------------------------------------- EventQueue

EventQueue_push(q, e) == q \cup {e}

\* A pop that returns the event created last.
EventQueue_pop_latest(q) == CHOOSE e \in q : \A f \in q : f.seq <= e.seq

\* The event pop() removes: the minimum by (time, sequence).
EventQueue_pop(q) == CHOOSE e \in q : \A f \in q : KeyLeq(e, f)

\* next_event_time(): the least time in the queue, none when it is empty.
EventQueue_next_event_time(q) ==
    IF q = {} THEN NoTime
    ELSE CHOOSE t \in {e.time : e \in q} : \A e \in q : t <= e.time

\* ------------------------------------------------------------- Cpu

Max(a, b) == IF a >= b THEN a ELSE b

\* Cpu::new(frequency, raw_frequency, threshold, precision): nothing owed at
\* time zero.
Cpu_new(threshold, precision) ==
    [last_update_time |-> 0, accumulated_delay |-> 0,
     threshold |-> threshold, precision |-> precision]

\* An update_time that takes the elapsed time off the owed delay without
\* stopping at zero.
Cpu_update_time_signed(c, now) ==
    [c EXCEPT
         !.last_update_time = now,
         !.accumulated_delay =
             c.accumulated_delay - Max(0, now - c.last_update_time)]

\* Cpu::update_time(now): the bookkeeping advances to now; the time that
\* elapsed since the last update has been served and is no longer owed.
Cpu_update_time(c, now) ==
    [c EXCEPT
         !.last_update_time = now,
         !.accumulated_delay =
             Max(0, c.accumulated_delay - Max(0, now - c.last_update_time))]

\* Cpu::add_delay(duration): more busy time, picked up by the next query.
Cpu_add_delay(c, d) == [c EXCEPT !.accumulated_delay = @ + d]

\* A delay() that reports the owed delay as it is, not rounded.
Cpu_delay_exact(c) == c.accumulated_delay

\* Cpu::delay(): the owed delay, reported in full at or above the threshold
\* and rounded down to a multiple of the precision below it; the remainder
\* stays in the accumulated delay.
Cpu_delay(c) ==
    IF c.accumulated_delay >= c.threshold
    THEN c.accumulated_delay
    ELSE (c.accumulated_delay \div c.precision) * c.precision

\* ------------------------------------------------------------- Host

\* self.params.sim_end_time
sim_end_time == params.sim_end_time

\* push_local_event with `>` for `>=`: an event at the horizon is accepted.
push_local_event_gt(q, e) ==
    IF e.time > sim_end_time
    THEN [ok |-> FALSE, queue |-> q]
    ELSE [ok |-> TRUE, queue |-> EventQueue_push(q, e)]

\* Host::push_local_event(event): the result and the queue afterwards.
push_local_event(q, e) ==
    IF e.time >= sim_end_time
    THEN [ok |-> FALSE, queue |-> q]
    ELSE [ok |-> TRUE, queue |-> EventQueue_push(q, e)]

\* A next_event_time that reports the greatest time in the queue.
Host_next_event_time_last(q) ==
    IF q = {} THEN NoTime
    ELSE CHOOSE t \in {e.time : e \in q} : \A e \in q : e.time <= t

\* Host::next_event_time()
Host_next_event_time(q) == EventQueue_next_event_time(q)

\* The peek guard off by one downwards: an event at until - 1 is left.
Due_strict(q, u) ==
    LET t == EventQueue_next_event_time(q) IN t # NoTime /\ t + 1 < u

\* The peek guard with `<=` for `<`: an event at until is run.
Due_le(q, u) ==
    LET t == EventQueue_next_event_time(q) IN t # NoTime /\ t <= u

\* execute(): `Some(t) if t < until => {}` lets the loop go on to the pop.
Due(q, u) ==
    LET t == EventQueue_next_event_time(q) IN t # NoTime /\ t < u

\* A reschedule that forgets to advance the time.
Rescheduled_keep(e, d) == e

\* execute(): event.set_time(event.time() + cpu_delay)
Rescheduled(e, d) == [e EXCEPT !.time = e.time + d]

\* The delay test with `>=` for `>`: an event is rescheduled by zero.
Blocked_ge(d) == d >= 0

\* execute(): `if cpu_delay > SimulationTime::ZERO`
Blocked(d) == d > 0

Last(s) == s[Len(s)]

\* A notification that does not look whether the host has a tracker.
Tracker_addVirtualProcessingDelay_always(log, d) == Append(log, d)

\* execute(): `if let Some(tracker) = &*tracker` and the call of
\* tracker_addVirtualProcessingDelay(tracker, cpu_delay): with a tracker, it
\* is told the delay; with none, nothing happens.
Tracker_addVirtualProcessingDelay(log, d) ==
    IF tracker = "none" THEN log ELSE Append(log, d)

\* The host's thread is outside execute() or inside a running task: the
\* places from which the host's methods can be called.
Callable == ~panicked /\ pc \in {"idle", "run"}

\* The producer threads.
Producers == {1, 2}

\* The thread that owns the host and runs its execute().
HostThread == 0

\* No producer thread has anything to push.
NoInput == [p \in Producers |-> <<>>]

\* The counters of the host.
Counters == {"event_id", "process_id", "packet_id", "determinism_sequence",
             "packet_priority"}

\* `Process IDs start at 1000`
FirstProcessId == 1000

\* `Packet priorities start at 1.0`
FirstPacketPriority == 1

\* The HostParameters of the runs that are not about a configuration of
\* their own: no heartbeat interval, and so no tracker.
HostParameters ==
    [sim_end_time |-> SimEndTime, cpu_threshold |-> CpuThreshold,
     cpu_precision |-> CpuPrecision, heartbeat_interval |-> "none"]

\* No call has read the namespace.
NoLookup == [op |-> "none", addr |-> "none", some |-> FALSE]

\* Nothing is kept of a first run.
NoFirst == [delays |-> <<>>, executed |-> <<>>]

\* The run is not compared with another.
SingleRun ==
    /\ run = 0
    /\ trace = <<>>
    /\ cursor = 0
    /\ delays = <<>>
    /\ first = NoFirst

\* The host after Host::new(hp, ...), but for what the producer threads
\* will push.
Host_new(hp) ==
    /\ params = hp
    /\ tracker = "none"
    /\ tracker_delays = <<>>
    /\ process_id_counter = FirstProcessId
    /\ packet_id_counter = 0
    /\ determinism_sequence_counter = 0
    /\ packet_priority_counter = FirstPacketPriority
    /\ issued = [c \in Counters |-> <<>>]
    /\ cpu_borrow = FALSE
    /\ processes = {}
    /\ net_ns = "some"
    /\ looked = NoLookup
    /\ event_queue = {}
    /\ event_id_counter = 0
    /\ cpu = Cpu_new(hp.cpu_threshold, hp.cpu_precision)
    /\ current_time = NoTime
    /\ pc = "idle"
    /\ until = NoTime
    /\ event = NoEvent
    /\ panicked = FALSE
    /\ executed = <<>>
    /\ accepted = {}
    /\ ret = NoRet
    /\ lastIter = NoIter
    /\ dropped = {}
    /\ lastPop = NoEvent
    /\ pushedSincePop = FALSE
    /\ peeked = Stale
    /\ callStart = NoCall
    /\ callPure = FALSE
    /\ pastPush = FALSE
    /\ overtake = {}
    /\ shim_shmem_lock = FALSE
    /\ shmem_mutex = "unlocked"
    /\ shim_holds = FALSE
    /\ lock_wait = FALSE
    /\ shmem_block = "alive"
    /\ lock_pairs = 0
    /\ queue_mutex = {}
    /\ progress = [p \in Producers |-> 0]
    /\ local = {}
    /\ popped = <<>>
    /\ pushOrder = <<>>
    /\ racing = FALSE

\* The host of a run that is not compared with another.
HostInit == Host_new(HostParameters) /\ SingleRun

Init == HostInit /\ input = NoInput

\* Event::new followed by push_local_event, as both scheduling calls do it.
CreateAndPush(op, t) ==
    LET e == Event_new(t, event_id_counter)
        r == push_local_event(event_queue, e)
    IN  /\ event_id_counter < MaxEvents
        /\ event_id_counter' = event_id_counter + 1
        /\ event_queue' = r.queue
        /\ ret' = [op |-> op, time |-> t, seq |-> e.seq, ok |-> r.ok]
        /\ accepted' = (IF r.ok THEN accepted \cup {e.seq} ELSE accepted)
        /\ pushedSincePop' = (pushedSincePop \/ (r.ok /\ pc # "idle"))
        /\ peeked' = (IF r.ok THEN Stale ELSE peeked)
        /\ callPure' = (callPure /\ ~r.ok)
        /\ pastPush' = (pastPush \/ (r.ok /\ executed # <<>>
                                          /\ KeyLess(e, Last(executed))))
        /\ UNCHANGED <<cpu, current_time, pc, until, event, panicked, executed,
                       lastIter, dropped, lastPop, callStart, overtake>>
        /\ UNCHANGED <<lockVars, concVars, sideVars>>

\* Host::schedule_task_at_emulated_time(task, t)
schedule_task_at_emulated_time(t) ==
    /\ Callable
    /\ CreateAndPush("schedule_task_at_emulated_time", t)

\* Host::push_local_event(event), the event made by Event::new for time t
PushLocalEvent(t) ==
    /\ Callable
    /\ CreateAndPush("push_local_event", t)

\* A schedule_task_with_delay that takes time zero for a current time that is
\* not published.
schedule_task_with_delay_lenient(d) ==
    /\ Callable
    /\ CreateAndPush("schedule_task_with_delay", Max(current_time, 0) + d)

\* Host::schedule_task_with_delay(task, d) while a current time is published
schedule_task_with_delay(d) ==
    /\ Callable
    /\ current_time # NoTime
    /\ CreateAndPush("schedule_task_with_delay", current_time + d)

\* Host::schedule_task_with_delay(task, d) with no current time published:
\* Worker::current_time().unwrap() panics before any event is made.
schedule_task_with_delay_panic ==
    /\ Callable
    /\ current_time = NoTime
    /\ panicked' = TRUE
    /\ ret' = NoRet
    /\ UNCHANGED <<accepted, event_queue, event_id_counter, cpu, current_time,
                   pc, until, event, executed, lastIter, dropped, lastPop,
                   pushedSincePop, peeked, callStart, callPure, pastPush,
                   overtake>>
    /\ UNCHANGED <<lockVars, concVars, sideVars>>

\* host_addDelayNanos(host, delay_nanos): the code of a running task charges
\* the CPU time it used.
host_addDelayNanos(d) ==
    /\ Callable
    /\ pc = "run"
    /\ cpu' = Cpu_add_delay(cpu, d)
    /\ ret' = NoRet
    /\ UNCHANGED <<accepted, event_queue, event_id_counter, current_time, pc,
                   until, event, panicked, executed, lastIter, dropped,
                   lastPop, pushedSincePop, peeked, callStart, callPure,
                   pastPush, overtake>>
    /\ UNCHANGED <<lockVars, concVars, sideVars>>

\* A next_event_time that looks at the next event by taking it out.
next_event_time_pop ==
    /\ Callable
    /\ pc = "idle"
    /\ peeked' = Host_next_event_time(event_queue)
    /\ event_queue' = (IF event_queue = {} THEN event_queue
                       ELSE event_queue \ {EventQueue_pop(event_queue)})
    /\ ret' = NoRet
    /\ UNCHANGED <<accepted, event_id_counter, cpu, current_time, pc, until,
                   event, panicked, executed, lastIter, dropped, lastPop,
                   pushedSincePop, callStart, callPure, pastPush, overtake>>
    /\ UNCHANGED <<lockVars, concVars, sideVars>>

\* Host::next_event_time(): the scheduler asks between execute() calls.
next_event_time ==
    /\ Callable
    /\ pc = "idle"
    /\ peeked' = Host_next_event_time(event_queue)
    /\ ret' = NoRet
    /\ UNCHANGED <<accepted, event_queue, event_id_counter, cpu, current_time,
                   pc, until, event, panicked, executed, lastIter, dropped,
                   lastPop, pushedSincePop, callStart, callPure, pastPush,
                   overtake>>
    /\ UNCHANGED <<lockVars, concVars, sideVars>>

\* Host::execute(until) is called.
Execute(u) ==
    /\ ~panicked
    /\ pc = "idle"
    /\ pc' = "peek"
    /\ until' = u
    /\ callStart' = [queue |-> event_queue, nexec |-> Len(executed)]
    /\ callPure' = TRUE
    /\ ret' = NoRet
    /\ UNCHANGED <<accepted, event_queue, event_id_counter, cpu, current_time,
                   event, panicked, executed, lastIter, dropped, lastPop,
                   pushedSincePop, peeked, pastPush, overtake>>
    /\ UNCHANGED <<lockVars, concVars, sideVars>>

\* execute(): the peek finds nothing due, `_ => break`: the call returns.
ExecReturn ==
    /\ pc = "peek"
    /\ ~Due(event_queue, until)
    /\ pc' = "idle"
    /\ until' = NoTime
    /\ callStart' = NoCall
    /\ callPure' = FALSE
    /\ lastIter' = NoIter
    /\ lastPop' = NoEvent
    /\ pushedSincePop' = FALSE
    /\ UNCHANGED <<accepted, event_queue, event_id_counter, cpu, current_time,
                   event, panicked, executed, ret, dropped, peeked, pastPush,
                   overtake>>
    /\ UNCHANGED <<lockVars, concVars, sideVars>>

\* execute(): the peek finds a due event and, under the same lock, pops it.
ExecPop ==
    /\ pc = "peek"
    /\ Due(event_queue, until)
    /\ event' = EventQueue_pop(event_queue)
    /\ event_queue' = event_queue \ {event'}
    /\ pc' = "cpu"
    /\ lastPop' = event'
    /\ pushedSincePop' = FALSE
    /\ peeked' = Stale
    /\ UNCHANGED <<accepted, event_id_counter, cpu, current_time, until,
                   panicked, executed, ret, lastIter, dropped, callStart,
                   callPure, pastPush, overtake>>
    /\ UNCHANGED <<lockVars, concVars, sideVars>>

\* A reschedule without its `continue`: the event is pushed back and its task
\* is run all the same, at the advanced time.
ExecReschedule_fallthrough ==
    LET c == Cpu_update_time(cpu, event.time)
        d == Cpu_delay(c)
        e == [event EXCEPT !.time = event.time + d]
        r == push_local_event(event_queue, e)
    IN  /\ pc = "cpu"
        /\ d > 0
        /\ cpu' = c
        /\ event_queue' = r.queue
        /\ event' = e
        /\ current_time' = e.time
        /\ pc' = "run"
        /\ executed' = Append(executed, e)
        /\ lastIter' = [kind |-> "resched", ev |-> event, delay |-> d,
                        pushed |-> r.ok]
        /\ dropped' = (IF r.ok THEN dropped ELSE dropped \cup {e})
        /\ pushedSincePop' = (pushedSincePop \/ r.ok)
        /\ peeked' = (IF r.ok THEN Stale ELSE peeked)
        /\ callPure' = FALSE
        /\ overtake' = overtake \cup {<<event.seq, b.seq>> : b \in event_queue}
        /\ tracker_delays' =
               Tracker_addVirtualProcessingDelay(tracker_delays, d)
        /\ UNCHANGED <<accepted, event_id_counter, until, panicked, ret,
                       lastPop, callStart, pastPush>>
        /\ UNCHANGED <<lockVars, concVars, configVars, counterVars, cellVars>>

\* A reschedule that advances the CPU model to a clock of its own, which may
\* be ahead of the event's time, instead of to the event's time.
ExecReschedule_wallclock ==
    \E late \in {0, cpu.precision} :
        LET c == Cpu_update_time(cpu, event.time + late)
            d == Cpu_delay(c)
            e == Rescheduled(event, d)
            r == push_local_event(event_queue, e)
        IN  /\ pc = "cpu"
            /\ Blocked(Cpu_delay(Cpu_update_time(cpu, event.time)))
            /\ cpu' = c
            /\ event_queue' = r.queue
            /\ event' = NoEvent
            /\ pc' = "peek"
            /\ lastIter' = [kind |-> "resched", ev |-> event, delay |-> d,
                            pushed |-> r.ok]
            /\ dropped' = (IF r.ok THEN dropped ELSE dropped \cup {e})
            /\ pushedSincePop' = (pushedSincePop \/ r.ok)
            /\ peeked' = (IF r.ok THEN Stale ELSE peeked)
            /\ callPure' = FALSE
            /\ overtake' =
                   overtake \cup {<<event.seq, b.seq>> : b \in event_queue}
            /\ tracker_delays' =
                   Tracker_addVirtualProcessingDelay(tracker_delays, d)
            /\ UNCHANGED <<accepted, event_id_counter, current_time, until,
                           panicked, executed, ret, lastPop, callStart,
                           pastPush>>
            /\ UNCHANGED <<lockVars, concVars, configVars, counterVars,
                           cellVars>>

\* execute(): the CPU model owes a delay: the event goes back into the queue
\* with its time advanced and the loop continues.
ExecReschedule ==
    LET c == Cpu_update_time(cpu, event.time)
        d == Cpu_delay(c)
        e == Rescheduled(event, d)
        r == push_local_event(event_queue, e)
    IN  /\ pc = "cpu"
        /\ Blocked(d)
        /\ cpu' = c
        /\ event_queue' = r.queue
        /\ event' = NoEvent
        /\ pc' = "peek"
        /\ lastIter' = [kind |-> "resched", ev |-> event, delay |-> d,
                        pushed |-> r.ok]
        /\ dropped' = (IF r.ok THEN dropped ELSE dropped \cup {e})
        /\ pushedSincePop' = (pushedSincePop \/ r.ok)
        /\ peeked' = (IF r.ok THEN Stale ELSE peeked)
        /\ callPure' = FALSE
        /\ overtake' = overtake \cup {<<event.seq, b.seq>> : b \in event_queue}
        /\ tracker_delays' =
               Tracker_addVirtualProcessingDelay(tracker_delays, d)
        /\ UNCHANGED <<accepted, event_id_counter, current_time, until,
                       panicked, executed, ret, lastPop, callStart, pastPush>>
        /\ UNCHANGED <<lockVars, concVars, configVars, counterVars, cellVars>>

\* execute(): no delay is owed: the event's time is published and its task
\* starts to run.
ExecRun ==
    LET c == Cpu_update_time(cpu, event.time)
        d == Cpu_delay(c)
    IN  /\ pc = "cpu"
        /\ ~Blocked(d)
        /\ cpu' = c
        /\ current_time' = event.time
        /\ pc' = "run"
        /\ executed' = Append(executed, event)
        /\ lastIter' = [kind |-> "run", ev |-> event, delay |-> d,
                        pushed |-> FALSE]
        /\ UNCHANGED <<accepted, event_queue, event_id_counter, until, event,
                       panicked, ret, dropped, lastPop, pushedSincePop, peeked,
                       callStart, callPure, pastPush, overtake>>
        /\ UNCHANGED <<lockVars, concVars, sideVars>>

\* A task's return that leaves the current time published.
ExecTaskDone_keep ==
    /\ ~panicked
    /\ pc = "run"
    /\ event' = NoEvent
    /\ pc' = "peek"
    /\ ret' = NoRet
    /\ UNCHANGED <<accepted, event_queue, event_id_counter, cpu, current_time,
                   until, panicked, executed, lastIter, dropped, lastPop,
                   pushedSincePop, peeked, callStart, callPure, pastPush,
                   overtake>>
    /\ UNCHANGED <<lockVars, concVars, sideVars>>

\* execute(): the task returns and the current time is cleared.
ExecTaskDone ==
    /\ ~panicked
    /\ pc = "run"
    /\ current_time' = NoTime
    /\ event' = NoEvent
    /\ pc' = "peek"
    /\ ret' = NoRet
    /\ UNCHANGED <<accepted, event_queue, event_id_counter, cpu, until,
                   panicked, executed, lastIter, dropped, lastPop,
                   pushedSincePop, peeked, callStart, callPure, pastPush,
                   overtake>>
    /\ UNCHANGED <<lockVars, concVars, sideVars>>

\* execute(): the task panics.  The panic unwinds through execute(), which
\* has no scope guard around the task: Worker::clear_current_time() is the
\* statement after event.execute() and is not reached.
ExecTaskPanic ==
    /\ ~panicked
    /\ pc = "run"
    /\ panicked' = TRUE
    /\ pc' = "idle"
    /\ event' = NoEvent
    /\ ret' = NoRet
    /\ UNCHANGED <<accepted, event_queue, event_id_counter, cpu, current_time,
                   until, executed, lastIter, dropped, lastPop,
                   pushedSincePop, peeked, callStart, callPure, pastPush,
                   overtake>>
    /\ UNCHANGED <<lockVars, concVars, sideVars>>

Next ==
    \/ \E t \in Times : schedule_task_at_emulated_time(t) /\ UNCHANGED twinVars
    \/ \E t \in Times : PushLocalEvent(t) /\ UNCHANGED twinVars
    \/ \E d \in 0 .. MaxAddDelay :
           schedule_task_with_delay(d) /\ UNCHANGED twinVars
    \/ schedule_task_with_delay_panic /\ UNCHANGED twinVars
    \/ \E d \in 1 .. MaxAddDelay :
           /\ cpu.accumulated_delay + d <= MaxOwed
           /\ host_addDelayNanos(d)
           /\ UNCHANGED twinVars
    \/ next_event_time /\ UNCHANGED twinVars
    \/ \E u \in Times : Execute(u) /\ UNCHANGED twinVars
    \/ ExecReturn /\ UNCHANGED twinVars
    \/ ExecPop /\ UNCHANGED twinVars
    \/ ExecReschedule /\ UNCHANGED twinVars
    \/ ExecRun /\ UNCHANGED twinVars
    \/ ExecTaskDone /\ UNCHANGED twinVars
    \/ ExecTaskPanic /\ UNCHANGED twinVars

Spec == Init /\ [][Next]_vars

\* ------------------------------------------------------------- shared memory

\* SelfContainedMutex::lock() of HostShmem::protected returns the guard once
\* the mutex is unlocked; until then the caller waits inside it.  The mutex
\* is a word in the shared block: it does not know who locked it.
Mutex_available(m) == m = "unlocked"

\* What a call of the lock protocol reports: its name and whether it returned
\* (ok) or ended in a failed assertion or unwrap.
LockRet(op, ok) == [NoRet EXCEPT !.op = op, !.ok = ok]

\* The host exists and its thread is free to call a method of it.
HostAlive == Callable /\ ~lock_wait /\ shmem_block = "alive"

\* Host::lock_shmem() is called: the thread enters protected().lock().
lock_shmem_call ==
    /\ HostAlive
    /\ lock_pairs < MaxLockPairs
    /\ lock_wait' = TRUE
    /\ ret' = NoRet
    /\ UNCHANGED <<shim_shmem_lock, shmem_mutex, shim_holds, shmem_block,
                   lock_pairs>>
    /\ UNCHANGED <<engineVars, concVars, sideVars, panicked>>

\* Host::lock_shmem(): protected().lock() returns the guard, the guard
\* replaces the cached one and the previous one is asserted to be none.
lock_shmem ==
    /\ ~panicked
    /\ lock_wait
    /\ Mutex_available(shmem_mutex)
    /\ shmem_mutex' = "locked"
    /\ shim_shmem_lock' = TRUE
    /\ panicked' = shim_shmem_lock
    /\ lock_wait' = FALSE
    /\ ret' = LockRet("lock_shmem", ~shim_shmem_lock)
    /\ UNCHANGED <<shim_holds, shmem_block, lock_pairs>>
    /\ UNCHANGED <<engineVars, concVars, sideVars>>

\* An unlock that gives the mutex back through the guard's pointer and
\* leaves the guard cached.
unlock_shmem_keep ==
    /\ HostAlive
    /\ panicked' = ~shim_shmem_lock
    /\ shmem_mutex' = (IF shim_shmem_lock THEN "unlocked" ELSE shmem_mutex)
    /\ lock_pairs' = (IF shim_shmem_lock THEN lock_pairs + 1 ELSE lock_pairs)
    /\ ret' = LockRet("unlock_shmem", shim_shmem_lock)
    /\ UNCHANGED <<shim_shmem_lock, shim_holds, lock_wait, shmem_block>>
    /\ UNCHANGED <<engineVars, concVars, sideVars>>

\* An unlock without its assertion: with no guard cached it returns.
unlock_shmem_lenient ==
    /\ HostAlive
    /\ shim_shmem_lock' = FALSE
    /\ shmem_mutex' = (IF shim_shmem_lock THEN "unlocked" ELSE shmem_mutex)
    /\ lock_pairs' = (IF shim_shmem_lock THEN lock_pairs + 1 ELSE lock_pairs)
    /\ ret' = LockRet("unlock_shmem", TRUE)
    /\ UNCHANGED <<shim_holds, lock_wait, shmem_block>>
    /\ UNCHANGED <<engineVars, concVars, sideVars, panicked>>

\* An unlock that forgets the guard it took: the mutex stays held.
unlock_shmem_leak ==
    /\ HostAlive
    /\ shim_shmem_lock' = FALSE
    /\ panicked' = ~shim_shmem_lock
    /\ lock_pairs' = (IF shim_shmem_lock THEN lock_pairs + 1 ELSE lock_pairs)
    /\ ret' = LockRet("unlock_shmem", shim_shmem_lock)
    /\ UNCHANGED <<shmem_mutex, shim_holds, lock_wait, shmem_block>>
    /\ UNCHANGED <<engineVars, concVars, sideVars>>

\* Host::unlock_shmem(): the cached guard is taken and asserted to have been
\* there; dropping it releases the mutex.
unlock_shmem ==
    /\ HostAlive
    /\ shim_shmem_lock' = FALSE
    /\ panicked' = ~shim_shmem_lock
    /\ shmem_mutex' = (IF shim_shmem_lock THEN "unlocked" ELSE shmem_mutex)
    /\ lock_pairs' = (IF shim_shmem_lock THEN lock_pairs + 1 ELSE lock_pairs)
    /\ ret' = LockRet("unlock_shmem", shim_shmem_lock)
    /\ UNCHANGED <<shim_holds, lock_wait, shmem_block>>
    /\ UNCHANGED <<engineVars, concVars, sideVars>>

\* A host_getShimShmemLock that hands out the protected data without looking
\* for a cached guard.
host_getShimShmemLock_unchecked ==
    /\ HostAlive
    /\ ret' = LockRet("host_getShimShmemLock", TRUE)
    /\ UNCHANGED <<lockVars, concVars, sideVars, panicked>>
    /\ UNCHANGED engineVars

\* host_getShimShmemLock(host): the cached guard's data, by unwrap.
host_getShimShmemLock ==
    /\ HostAlive
    /\ panicked' = ~shim_shmem_lock
    /\ ret' = LockRet("host_getShimShmemLock", shim_shmem_lock)
    /\ UNCHANGED <<lockVars, concVars, sideVars>>
    /\ UNCHANGED engineVars

\* The shim, in a thread of the emulated program, takes the mutex.
Shim_lock ==
    /\ shmem_block = "alive"
    /\ Mutex_available(shmem_mutex)
    /\ shmem_mutex' = "locked"
    /\ shim_holds' = TRUE
    /\ UNCHANGED <<shim_shmem_lock, lock_wait, shmem_block, lock_pairs>>
    /\ UNCHANGED <<engineVars, concVars, sideVars, panicked, ret>>

\* The shim releases the mutex.
Shim_unlock ==
    /\ shmem_block = "alive"
    /\ shim_holds
    /\ shmem_mutex' = "unlocked"
    /\ shim_holds' = FALSE
    /\ UNCHANGED <<shim_shmem_lock, lock_wait, shmem_block, lock_pairs>>
    /\ UNCHANGED <<engineVars, concVars, sideVars, panicked, ret>>

\* A drop without its assertion: the block goes while the guard is cached.
Drop_unchecked(unwind) ==
    /\ HostAlive
    /\ pc = "idle"
    /\ shmem_block' = "destroyed"
    /\ ret' = LockRet("drop", TRUE)
    /\ UNCHANGED <<shim_shmem_lock, shmem_mutex, shim_holds, lock_wait,
                   lock_pairs>>
    /\ UNCHANGED <<engineVars, concVars, sideVars, panicked>>

\* impl Drop for Host: the guard is asserted to be none, then the fields are
\* dropped in their order of declaration, the cached guard before the block.
\* When the assertion fails, the panic either unwinds, and the fields are
\* dropped all the same, or aborts the process, and nothing is dropped.
Drop(unwind) ==
    /\ HostAlive
    /\ pc = "idle"
    /\ panicked' = shim_shmem_lock
    /\ IF shim_shmem_lock /\ ~unwind
       THEN UNCHANGED <<shim_shmem_lock, shmem_mutex, shmem_block>>
       ELSE /\ shim_shmem_lock' = FALSE
            /\ shmem_mutex' =
                   (IF shim_shmem_lock THEN "unlocked" ELSE shmem_mutex)
            /\ shmem_block' = "destroyed"
    /\ ret' = LockRet("drop", ~shim_shmem_lock)
    /\ UNCHANGED <<shim_holds, lock_wait, lock_pairs>>
    /\ UNCHANGED <<engineVars, concVars, sideVars>>

\* The host's thread between execute() calls, with the lock protocol and the
\* shim: scheduling calls, next_event_time(), lock_shmem(), unlock_shmem(),
\* host_getShimShmemLock() and the drop of the host.
NextLock ==
    \/ \E t \in Times : HostAlive /\ PushLocalEvent(t) /\ UNCHANGED twinVars
    \/ HostAlive /\ next_event_time /\ UNCHANGED twinVars
    \/ lock_shmem_call /\ UNCHANGED twinVars
    \/ lock_shmem /\ UNCHANGED twinVars
    \/ unlock_shmem /\ UNCHANGED twinVars
    \/ host_getShimShmemLock /\ UNCHANGED twinVars
    \/ Shim_lock /\ UNCHANGED twinVars
    \/ Shim_unlock /\ UNCHANGED twinVars
    \/ \E unwind \in BOOLEAN : Drop(unwind) /\ UNCHANGED twinVars

SpecLock == Init /\ [][NextLock]_vars

\* The lock protocol with the one progress assumption that a thread waiting
\* in protected().lock() gets the mutex when it is unlocked.
SpecLockFair == SpecLock /\ WF_vars(lock_shmem /\ UNCHANGED twinVars)

\* ------------------------------------------------------------- producers

\* The times at which the producer threads' events are to run.
ProducerTimes == 0 .. MaxProducerTime

\* The producer whose thread creates the event with sequence i.
ProducerOf(i) == (i % Cardinality(Producers)) + 1

\* The events of producer p, in the order p creates and pushes them, tm
\* giving each event's time; the sequence is the event's place in the order
\* of creation.
Share(p, tm) ==
    LET mine == {i \in 0 .. MaxEvents - 1 : ProducerOf(i) = p}
        nth(k) == CHOOSE i \in mine :
                      Cardinality({j \in mine : j < i}) = k - 1
    IN  [k \in 1 .. Cardinality(mine) |-> Event_new(tm[nth(k)], nth(k))]

\* Host::new, the events that other threads will push chosen.
ConcInit ==
    /\ HostInit
    /\ \E tm \in [0 .. MaxEvents - 1 -> ProducerTimes] :
           input = [p \in Producers |-> Share(p, tm)]

\* The events whose push has ended.
PushedEvents ==
    UNION {{input[p][k] : k \in 1 .. progress[p]} : p \in Producers}

\* A push that numbers the event anew, by its place in the order of pushes.
Pushed_renumbered(e, n) == [e EXCEPT !.seq = n]

\* push_local_event(): the event goes into the queue as it was created, the
\* n-th to be pushed.
Pushed(e, n) == e

\* Mutex::lock() of the event queue's mutex returns once no thread is inside
\* a critical section of it.
QueueMutex_free == queue_mutex = {}

\* What is left of the state by the producers and the execute() beside them.
concFrame == <<event_id_counter, cpu, current_time, executed, accepted, ret,
               lastIter, dropped, lastPop, pushedSincePop, peeked, callStart,
               callPure, pastPush, overtake, input>>

\* A producer thread locks the event queue's mutex and its push begins: it
\* reads the queue.
Producer_lock(p) ==
    /\ progress[p] < Len(input[p])
    /\ p \notin queue_mutex
    /\ QueueMutex_free
    /\ queue_mutex' = queue_mutex \cup {p}
    /\ local' = event_queue
    /\ UNCHANGED <<event_queue, pc, until, event, panicked, progress, popped,
                   pushOrder, racing>>
    /\ UNCHANGED <<concFrame, lockVars, sideVars>>

\* The producer's push ends: the queue is what the push read, with the event
\* in it, and the mutex is unlocked.
Producer_push(p) ==
    LET e == Pushed(input[p][progress[p] + 1], Len(pushOrder)) IN
    /\ p \in queue_mutex
    /\ event_queue' = push_local_event(local, e).queue
    /\ queue_mutex' = queue_mutex \ {p}
    /\ progress' = [progress EXCEPT ![p] = @ + 1]
    /\ pushOrder' = Append(pushOrder, e)
    /\ racing' = (racing \/ popped # <<>>)
    /\ local' = {}
    /\ UNCHANGED <<pc, until, event, panicked, popped>>
    /\ UNCHANGED <<concFrame, lockVars, sideVars>>

\* Host::execute(until) is called while the producers run.
ConcExecute(u) ==
    /\ ~panicked
    /\ pc = "idle"
    /\ pc' = "peek"
    /\ until' = u
    /\ UNCHANGED <<event_queue, event, panicked, queue_mutex, progress, local,
                   popped, pushOrder, racing>>
    /\ UNCHANGED <<concFrame, lockVars, sideVars>>

\* An execute() that looks at the queue without waiting for its mutex.
ConcLockPeek_nowait ==
    /\ pc = "peek"
    /\ queue_mutex' = queue_mutex \cup {HostThread}
    /\ pc' = (IF Due(event_queue, until) THEN "due" ELSE "break")
    /\ UNCHANGED <<event_queue, until, event, panicked, progress, local,
                   popped, pushOrder, racing>>
    /\ UNCHANGED <<concFrame, lockVars, sideVars>>

\* execute(): self.event_queue.lock(), and the peek under the lock.
ConcLockPeek ==
    /\ pc = "peek"
    /\ QueueMutex_free
    /\ queue_mutex' = queue_mutex \cup {HostThread}
    /\ pc' = (IF Due(event_queue, until) THEN "due" ELSE "break")
    /\ UNCHANGED <<event_queue, until, event, panicked, progress, local,
                   popped, pushOrder, racing>>
    /\ UNCHANGED <<concFrame, lockVars, sideVars>>

\* execute(): `_ => break`: the lock guard is dropped and the call returns.
ConcReturn ==
    /\ pc = "break"
    /\ queue_mutex' = queue_mutex \ {HostThread}
    /\ pc' = "idle"
    /\ until' = NoTime
    /\ UNCHANGED <<event_queue, event, panicked, progress, local, popped,
                   pushOrder, racing>>
    /\ UNCHANGED <<concFrame, lockVars, sideVars>>

\* execute(): event_queue.pop().unwrap(), the end of the critical section.
\* The unwrap panics on an empty queue.
ConcPop ==
    /\ pc = "due"
    /\ queue_mutex' = queue_mutex \ {HostThread}
    /\ IF event_queue = {}
       THEN /\ panicked' = TRUE
            /\ pc' = "idle"
            /\ UNCHANGED <<event_queue, event, popped>>
       ELSE /\ event' = EventQueue_pop(event_queue)
            /\ event_queue' = event_queue \ {event'}
            /\ popped' = Append(popped, event')
            /\ pc' = "run"
            /\ UNCHANGED panicked
    /\ UNCHANGED <<until, progress, local, pushOrder, racing>>
    /\ UNCHANGED <<concFrame, lockVars, sideVars>>

\* execute(): the popped event's task has run; the loop goes on.
ConcTaskDone ==
    /\ pc = "run"
    /\ pc' = "peek"
    /\ event' = NoEvent
    /\ UNCHANGED <<event_queue, until, panicked, queue_mutex, progress, local,
                   popped, pushOrder, racing>>
    /\ UNCHANGED <<concFrame, lockVars, sideVars>>

\* The host's execute() with producer threads that push into its queue.
NextConc ==
    \/ \E p \in Producers : Producer_lock(p) /\ UNCHANGED twinVars
    \/ \E p \in Producers : Producer_push(p) /\ UNCHANGED twinVars
    \/ \E u \in 0 .. MaxProducerTime + 1 : ConcExecute(u) /\ UNCHANGED twinVars
    \/ ConcLockPeek /\ UNCHANGED twinVars
    \/ ConcReturn /\ UNCHANGED twinVars
    \/ ConcPop /\ UNCHANGED twinVars
    \/ ConcTaskDone /\ UNCHANGED twinVars

SpecConc == ConcInit /\ [][NextConc]_vars

\* ------------------------------------------------------------- counters

\* The greatest value of the process id counter's u32.
U32Max == FirstProcessId + ProcessIdsToTop - 1

\* `res + 1` on an unsigned integer whose greatest value is top: above the top
\* the addition overflows, and the build decides what that does: with overflow
\* checks it panics, without them it wraps to zero.
Incremented(res, top, wraps) ==
    IF res < top THEN [value |-> res + 1, panics |-> FALSE]
    ELSE IF wraps THEN [value |-> 0, panics |-> FALSE]
    ELSE [value |-> res, panics |-> TRUE]

\* `res + 1.0` on an f64 that holds a whole number: exact below 2^53; there
\* the sum lies halfway between two f64 values and rounds to the even one,
\* res itself.
Incremented_f64(res) == IF res < F64Exact THEN res + 1 ELSE res

\* The value the next call of counter c returns.
CounterValue(c) ==
    CASE c = "event_id" -> event_id_counter
      [] c = "process_id" -> process_id_counter
      [] c = "packet_id" -> packet_id_counter
      [] c = "determinism_sequence" -> determinism_sequence_counter
      [] c = "packet_priority" -> packet_priority_counter

\* The call of counter c returns res, unless it panicked.
Issued(c, res, panics) ==
    IF panics THEN issued ELSE [issued EXCEPT ![c] = Append(@, res)]

\* What the counters leave of the event engine.
counterFrame == <<event_queue, cpu, current_time, pc, until, event, executed,
                  accepted, ret, lastIter, dropped, lastPop, pushedSincePop,
                  peeked, callStart, callPure, pastPush, overtake, lockVars,
                  concVars, configVars, tracker_delays, cellVars>>

\* Host::get_new_event_id()
get_new_event_id(wraps) ==
    LET res == event_id_counter
        n == Incremented(res, U64Max, wraps)
    IN  /\ ~panicked
        /\ Len(issued["event_id"]) < MaxCalls
        /\ event_id_counter' = n.value
        /\ panicked' = n.panics
        /\ issued' = Issued("event_id", res, n.panics)
        /\ UNCHANGED <<process_id_counter, packet_id_counter,
                       determinism_sequence_counter, packet_priority_counter>>
        /\ UNCHANGED counterFrame

\* Host::get_new_process_id()
get_new_process_id(wraps) ==
    LET res == process_id_counter
        n == Incremented(res, U32Max, wraps)
    IN  /\ ~panicked
        /\ Len(issued["process_id"]) < MaxCalls
        /\ process_id_counter' = n.value
        /\ panicked' = n.panics
        /\ issued' = Issued("process_id", res, n.panics)
        /\ UNCHANGED <<event_id_counter, packet_id_counter,
                       determinism_sequence_counter, packet_priority_counter>>
        /\ UNCHANGED counterFrame

\* Host::get_new_packet_id()
get_new_packet_id(wraps) ==
    LET res == packet_id_counter
        n == Incremented(res, U64Max, wraps)
    IN  /\ ~panicked
        /\ Len(issued["packet_id"]) < MaxCalls
        /\ packet_id_counter' = n.value
        /\ panicked' = n.panics
        /\ issued' = Issued("packet_id", res, n.panics)
        /\ UNCHANGED <<event_id_counter, process_id_counter,
                       determinism_sequence_counter, packet_priority_counter>>
        /\ UNCHANGED counterFrame

\* Host::get_next_deterministic_sequence_value()
get_next_deterministic_sequence_value(wraps) ==
    LET res == determinism_sequence_counter
        n == Incremented(res, U64Max, wraps)
    IN  /\ ~panicked
        /\ Len(issued["determinism_sequence"]) < MaxCalls
        /\ determinism_sequence_counter' = n.value
        /\ panicked' = n.panics
        /\ issued' = Issued("determinism_sequence", res, n.panics)
        /\ UNCHANGED <<event_id_counter, process_id_counter, packet_id_counter,
                       packet_priority_counter>>
        /\ UNCHANGED counterFrame

\* Host::get_next_packet_priority()
get_next_packet_priority ==
    LET res == packet_priority_counter IN
    /\ ~panicked
    /\ Len(issued["packet_priority"]) < MaxCalls
    /\ packet_priority_counter' = Incremented_f64(res)
    /\ issued' = Issued("packet_priority", res, FALSE)
    /\ UNCHANGED <<event_id_counter, process_id_counter, packet_id_counter,
                   determinism_sequence_counter, panicked>>
    /\ UNCHANGED counterFrame

\* The calls of the host's counters, in any order.
NextCounters ==
    \/ \E wraps \in BOOLEAN : get_new_event_id(wraps) /\ UNCHANGED twinVars
    \/ \E wraps \in BOOLEAN : get_new_process_id(wraps) /\ UNCHANGED twinVars
    \/ \E wraps \in BOOLEAN : get_new_packet_id(wraps) /\ UNCHANGED twinVars
    \/ \E wraps \in BOOLEAN :
           get_next_deterministic_sequence_value(wraps)
           /\ UNCHANGED twinVars
    \/ get_next_packet_priority /\ UNCHANGED twinVars

SpecCounters == Init /\ [][NextCounters]_vars

\* ------------------------------------------------------------- tracker, CPU

\* Host::boot(): the interfaces of the namespace start to refill their
\* token buckets, which panics (`as_ref().unwrap()`) with the namespace
\* gone; then, with a heartbeat interval in the parameters a tracker is made
\* and kept in the host; with none the host stays without a tracker.
boot ==
    /\ Callable
    /\ pc = "idle"
    /\ panicked' = (net_ns = "none")
    /\ tracker' = (IF net_ns = "none" \/ params.heartbeat_interval = "none"
                   THEN tracker
                   ELSE "some")
    /\ ret' = NoRet
    /\ UNCHANGED <<engineVars, lockVars, concVars, params, tracker_delays,
                   counterVars, cellVars>>

\* A host whose CPU has a threshold of 100 ns and a precision of 10 ns, with
\* or without a heartbeat interval; the simulation ends at 200 ns.
CpuParameters ==
    {[sim_end_time |-> 200, cpu_threshold |-> 100, cpu_precision |-> 10,
      heartbeat_interval |-> hb] : hb \in {"none", "some"}}

\* The times of the events scheduled on that host, the delays a task charges
\* and the arguments of execute().
CpuTimes == {0, 40}

CpuDelays == {55}

CpuUntils == {1, 200}

\* Cap on the delay that host's CPU model may owe.
CpuMaxOwed == 110

CpuInit ==
    /\ \E hp \in CpuParameters : Host_new(hp)
    /\ SingleRun
    /\ input = NoInput

\* The host's thread with the tracker and that CPU configuration.
NextCpu ==
    \/ boot /\ UNCHANGED twinVars
    \/ \E t \in CpuTimes :
           schedule_task_at_emulated_time(t) /\ UNCHANGED twinVars
    \/ \E d \in CpuDelays :
           /\ cpu.accumulated_delay + d <= CpuMaxOwed
           /\ host_addDelayNanos(d)
           /\ UNCHANGED twinVars
    \/ \E u \in CpuUntils : Execute(u) /\ UNCHANGED twinVars
    \/ ExecReturn /\ UNCHANGED twinVars
    \/ ExecPop /\ UNCHANGED twinVars
    \/ ExecReschedule /\ UNCHANGED twinVars
    \/ ExecRun /\ UNCHANGED twinVars
    \/ ExecTaskDone /\ UNCHANGED twinVars

SpecCpu == CpuInit /\ [][NextCpu]_vars

\* ------------------------------------------------------------- two runs

\* A call is made on the host.  In the first run any call can be made, and
\* it is written down; in the second run the call made is the next of those
\* written down.
Called(op, arg) ==
    LET call == [op |-> op, arg |-> arg] IN
    /\ IF run = 1
       THEN /\ Len(trace) < MaxTrace
            /\ trace' = Append(trace, call)
            /\ cursor' = cursor
       ELSE /\ cursor < Len(trace)
            /\ trace[cursor + 1] = call
            /\ trace' = trace
            /\ cursor' = cursor + 1
    /\ UNCHANGED <<run, delays, first>>

\* The delay of the reschedule that this step makes is written down: the
\* time added to the event that goes back to the queue.
DelayNoted ==
    /\ \E e \in (event_queue' \ event_queue) \cup (dropped' \ dropped) :
           delays' = Append(delays, e.time - event.time)
    /\ UNCHANGED <<run, trace, cursor, first>>

\* The first run ends, between two calls; what it rescheduled and executed
\* is kept, and a host is made anew by Host::new with the same parameters.
SecondRun ==
    /\ run = 1
    /\ pc = "idle"
    /\ ~panicked
    /\ run' = 2
    /\ first' = [delays |-> delays, executed |-> executed]
    /\ cursor' = 0
    /\ delays' = <<>>
    /\ tracker' = "none"
    /\ tracker_delays' = <<>>
    /\ event_queue' = {}
    /\ event_id_counter' = 0
    /\ cpu' = Cpu_new(params.cpu_threshold, params.cpu_precision)
    /\ executed' = <<>>
    /\ accepted' = {}
    /\ ret' = NoRet
    /\ lastIter' = NoIter
    /\ dropped' = {}
    /\ lastPop' = NoEvent
    /\ pushedSincePop' = FALSE
    /\ peeked' = Stale
    /\ callStart' = NoCall
    /\ callPure' = FALSE
    /\ pastPush' = FALSE
    /\ overtake' = {}
    /\ UNCHANGED <<current_time, pc, until, event, panicked, params, trace,
                   lockVars, concVars, counterVars, cellVars>>

\* The host of the first of two runs, with the CPU configuration of
\* CpuParameters.
TwinInit ==
    /\ \E hp \in CpuParameters : Host_new(hp)
    /\ input = NoInput
    /\ run = 1
    /\ trace = <<>>
    /\ cursor = 0
    /\ delays = <<>>
    /\ first = NoFirst

\* Two runs of the host's thread, one after the other, the second given the
\* calls of the first.
NextTwin ==
    \/ boot /\ Called("boot", 0)
    \/ \E t \in CpuTimes :
           schedule_task_at_emulated_time(t) /\ Called("schedule", t)
    \/ \E d \in CpuDelays :
           /\ cpu.accumulated_delay + d <= CpuMaxOwed
           /\ host_addDelayNanos(d)
           /\ Called("add_delay", d)
    \/ \E u \in CpuUntils : Execute(u) /\ Called("execute", u)
    \/ ExecReturn /\ UNCHANGED twinVars
    \/ ExecPop /\ UNCHANGED twinVars
    \/ ExecReschedule /\ DelayNoted
    \/ ExecRun /\ UNCHANGED twinVars
    \/ ExecTaskDone /\ Called("return", 0)
    \/ SecondRun

SpecTwin == TwinInit /\ [][NextTwin]_vars

\* ------------------------------------------------------------- guards

\* Number of events the tasks of the host schedule while producers push.
MaxTaskEvents == 1

\* Event::new on the host's own thread while producer threads push: the
\* event carries the host's own id as its source and so differs from every
\* event of a producer, whatever the counters are; the sequences of the
\* host's own events are counted from MaxEvents on.
OwnEvent(t) == Event_new(t, MaxEvents + event_id_counter)

\* What the steps of the host's thread leave alone when they are taken one
\* lock and one borrow at a time.
guardFrame == <<ret, lastIter, lastPop, pushedSincePop, peeked, callStart,
                callPure, pastPush, overtake, input, progress, local,
                pushOrder, racing, lockVars, configVars, counterVars,
                processes, net_ns, looked>>

\* Host::new, and each producer thread has one event to push, for time zero.
GuardInit ==
    /\ HostInit
    /\ input = [p \in Producers |-> <<Event_new(0, p - 1)>>]

\* Mutex::lock() of the event queue's mutex on the thread that already holds
\* it: the call does not return; it panics or it blocks for ever.
Mutex_relock ==
    /\ HostThread \in queue_mutex
    /\ \/ panicked' = TRUE /\ pc' = "idle"
       \/ panicked' = panicked /\ pc' = "stuck"
    /\ UNCHANGED <<event_queue, event_id_counter, cpu, current_time, until,
                   event, executed, accepted, dropped, popped,
                   tracker_delays, queue_mutex, cpu_borrow>>
    /\ UNCHANGED guardFrame

\* RefCell::borrow_mut() of Host::cpu while a RefMut of it is alive: the
\* call panics.
Cpu_reborrow ==
    /\ cpu_borrow
    /\ panicked' = TRUE
    /\ pc' = "idle"
    /\ UNCHANGED <<event_queue, event_id_counter, cpu, current_time, until,
                   event, executed, accepted, dropped, popped,
                   tracker_delays, queue_mutex, cpu_borrow>>
    /\ UNCHANGED guardFrame

\* Host::execute(until) is called.
execute_call(u) ==
    /\ ~panicked
    /\ pc = "idle"
    /\ pc' = "peek"
    /\ until' = u
    /\ UNCHANGED <<event_queue, event_id_counter, cpu, current_time, event,
                   panicked, executed, accepted, dropped, popped,
                   tracker_delays, queue_mutex, cpu_borrow>>
    /\ UNCHANGED guardFrame

\* execute(): `let mut event_queue = self.event_queue.lock().unwrap()`
execute_lock ==
    /\ pc = "peek"
    /\ \/ /\ QueueMutex_free
          /\ queue_mutex' = queue_mutex \cup {HostThread}
          /\ pc' = "locked"
          /\ UNCHANGED <<event_queue, event_id_counter, cpu, current_time,
                         until, event, panicked, executed, accepted, dropped,
                         popped, tracker_delays, cpu_borrow>>
          /\ UNCHANGED guardFrame
       \/ Mutex_relock

\* execute(): `_ => break` under the lock; the guard is dropped with the
\* block and the call returns.
execute_break ==
    /\ pc = "locked"
    /\ ~Due(event_queue, until)
    /\ queue_mutex' = queue_mutex \ {HostThread}
    /\ pc' = "idle"
    /\ until' = NoTime
    /\ UNCHANGED <<event_queue, event_id_counter, cpu, current_time, event,
                   panicked, executed, accepted, dropped, popped,
                   tracker_delays, cpu_borrow>>
    /\ UNCHANGED guardFrame

\* A pop whose lock guard lives on after the block that took it, to the end
\* of the call.
execute_pop_hold ==
    /\ pc = "locked"
    /\ Due(event_queue, until)
    /\ event' = EventQueue_pop(event_queue)
    /\ event_queue' = event_queue \ {event'}
    /\ popped' = Append(popped, event')
    /\ pc' = "popped"
    /\ UNCHANGED <<event_id_counter, cpu, current_time, until, panicked,
                   executed, accepted, dropped, tracker_delays, queue_mutex,
                   cpu_borrow>>
    /\ UNCHANGED guardFrame

\* execute(): `event_queue.pop().unwrap()`, the value of the block that took
\* the lock: the guard is dropped at the block's end.
execute_pop ==
    /\ pc = "locked"
    /\ Due(event_queue, until)
    /\ event' = EventQueue_pop(event_queue)
    /\ event_queue' = event_queue \ {event'}
    /\ popped' = Append(popped, event')
    /\ queue_mutex' = queue_mutex \ {HostThread}
    /\ pc' = "popped"
    /\ UNCHANGED <<event_id_counter, cpu, current_time, until, panicked,
                   executed, accepted, dropped, tracker_delays, cpu_borrow>>
    /\ UNCHANGED guardFrame

\* execute(): `let mut cpu = self.cpu.borrow_mut()`, then update_time.
execute_borrow_cpu ==
    /\ pc = "popped"
    /\ \/ /\ ~cpu_borrow
          /\ cpu_borrow' = TRUE
          /\ cpu' = Cpu_update_time(cpu, event.time)
          /\ pc' = "cpu"
          /\ UNCHANGED <<event_queue, event_id_counter, current_time, until,
                         event, panicked, executed, accepted, dropped, popped,
                         tracker_delays, queue_mutex>>
          /\ UNCHANGED guardFrame
       \/ Cpu_reborrow

\* execute(): a delay is owed: the tracker is told, the event's time is
\* advanced and push_local_event is called, under the borrow of the CPU
\* model.  An event at or past the horizon is refused before any lock; for
\* another the queue's mutex is taken, the event pushed and the mutex
\* released.  `continue` then ends the block and the borrow.
execute_repush ==
    LET d == Cpu_delay(cpu)
        e == Rescheduled(event, d)
        r == push_local_event(event_queue, e)
    IN  /\ pc = "cpu"
        /\ Blocked(d)
        /\ \/ /\ ~r.ok \/ QueueMutex_free
              /\ event_queue' = r.queue
              /\ dropped' = (IF r.ok THEN dropped ELSE dropped \cup {e})
              /\ tracker_delays' =
                     Tracker_addVirtualProcessingDelay(tracker_delays, d)
              /\ event' = NoEvent
              /\ cpu_borrow' = FALSE
              /\ pc' = "peek"
              /\ UNCHANGED <<event_id_counter, cpu, current_time, until,
                             panicked, executed, accepted, popped,
                             queue_mutex>>
              /\ UNCHANGED guardFrame
           \/ r.ok /\ Mutex_relock

\* execute(): no delay is owed: the block ends and with it the borrow of the
\* CPU model; the event's time is published and the task starts.
execute_run ==
    /\ pc = "cpu"
    /\ ~Blocked(Cpu_delay(cpu))
    /\ cpu_borrow' = FALSE
    /\ current_time' = event.time
    /\ executed' = Append(executed, event)
    /\ pc' = "run"
    /\ UNCHANGED <<event_queue, event_id_counter, cpu, until, event, panicked,
                   accepted, dropped, popped, tracker_delays, queue_mutex>>
    /\ UNCHANGED guardFrame

\* The running task calls schedule_task_with_delay(task, d) on its own host:
\* Event::new, then push_local_event, which takes the queue's mutex for an
\* event before the horizon.
task_schedule_with_delay(d) ==
    LET e == OwnEvent(current_time + d)
        r == push_local_event(event_queue, e)
    IN  /\ ~panicked
        /\ pc = "run"
        /\ event_id_counter < MaxTaskEvents
        /\ \/ /\ ~r.ok \/ QueueMutex_free
              /\ event_id_counter' = event_id_counter + 1
              /\ event_queue' = r.queue
              /\ accepted' = (IF r.ok THEN accepted \cup {e.seq}
                              ELSE accepted)
              /\ UNCHANGED <<cpu, current_time, pc, until, event, panicked,
                             executed, dropped, popped, tracker_delays,
                             queue_mutex, cpu_borrow>>
              /\ UNCHANGED guardFrame
           \/ r.ok /\ Mutex_relock

\* The running task calls host_addDelayNanos(host, d):
\* `host.cpu.borrow_mut().add_delay(delay)`.
task_addDelayNanos(d) ==
    /\ ~panicked
    /\ pc = "run"
    /\ \/ /\ ~cpu_borrow
          /\ cpu' = Cpu_add_delay(cpu, d)
          /\ UNCHANGED <<event_queue, event_id_counter, current_time, pc,
                         until, event, panicked, executed, accepted, dropped,
                         popped, tracker_delays, queue_mutex, cpu_borrow>>
          /\ UNCHANGED guardFrame
       \/ Cpu_reborrow

\* execute(): the task returns, the current time is cleared and the loop
\* goes on.
execute_task_done ==
    /\ ~panicked
    /\ pc = "run"
    /\ current_time' = NoTime
    /\ event' = NoEvent
    /\ pc' = "peek"
    /\ UNCHANGED <<event_queue, event_id_counter, cpu, until, panicked,
                   executed, accepted, dropped, popped, tracker_delays,
                   queue_mutex, cpu_borrow>>
    /\ UNCHANGED guardFrame

\* execute() lock by lock and borrow by borrow, its tasks calling back into
\* the host, beside producer threads that push into the queue.
NextGuard ==
    \/ \E p \in Producers : Producer_lock(p) /\ UNCHANGED twinVars
    \/ \E p \in Producers : Producer_push(p) /\ UNCHANGED twinVars
    \/ \E u \in {1, SimEndTime} : execute_call(u) /\ UNCHANGED twinVars
    \/ execute_lock /\ UNCHANGED twinVars
    \/ execute_break /\ UNCHANGED twinVars
    \/ execute_pop /\ UNCHANGED twinVars
    \/ execute_borrow_cpu /\ UNCHANGED twinVars
    \/ execute_repush /\ UNCHANGED twinVars
    \/ execute_run /\ UNCHANGED twinVars
    \/ \E d \in 0 .. MaxAddDelay :
           task_schedule_with_delay(d) /\ UNCHANGED twinVars
    \/ \E d \in 1 .. MaxAddDelay :
           /\ cpu.accumulated_delay + d <= MaxOwed
           /\ task_addDelayNanos(d)
           /\ UNCHANGED twinVars
    \/ execute_task_done /\ UNCHANGED twinVars

SpecGuard == GuardInit /\ [][NextGuard]_vars

\* A step of the host's thread inside execute(): the thread goes on as long
\* as it is not waiting for the queue's mutex, and a task that runs returns.
execute_step ==
    \/ execute_lock
    \/ execute_break
    \/ execute_pop
    \/ execute_borrow_cpu
    \/ execute_repush
    \/ execute_run
    \/ execute_task_done

\* The threads keep running: the host's thread takes its next step inside
\* execute(), and a producer thread inside the queue's mutex ends its push.
SpecGuardFair ==
    /\ SpecGuard
    /\ WF_vars(execute_step /\ UNCHANGED twinVars)
    /\ \A p \in Producers : WF_vars(Producer_push(p) /\ UNCHANGED twinVars)

\* ------------------------------------------------------------- lifecycle

\* Number of applications added to the host.
MaxProcesses == 2

\* The addresses asked for: those of the two interfaces of the host's
\* namespace, localhost and the one of the default address, and another.
Addresses == {"localhost", "default_address", "other"}

\* NetworkNamespace::interface(addr) and interface_mut(addr): the interface
\* of that address, if the namespace has one.
NetworkNamespace_interface(addr) == addr \in {"localhost", "default_address"}

\* The accessors of the namespace that return a part of it, or a value read
\* from it, and take no address.
NamespaceAccessors ==
    {"default_ip", "abstract_unix_namespace", "network_namespace"}

\* What the lifecycle's calls leave alone.
lifeFrame == <<engineVars, ret, lockVars, concVars, configVars,
               tracker_delays, cpu_borrow>>

\* Host::add_application(...): a process with a new id is made and put into
\* the process table.
add_application(wraps) ==
    LET res == process_id_counter
        n == Incremented(res, U32Max, wraps)
    IN  /\ Callable
        /\ Len(issued["process_id"]) < MaxProcesses
        /\ process_id_counter' = n.value
        /\ panicked' = n.panics
        /\ issued' = Issued("process_id", res, n.panics)
        /\ processes' = (IF n.panics THEN processes ELSE processes \cup {res})
        /\ UNCHANGED <<event_id_counter, packet_id_counter,
                       determinism_sequence_counter, packet_priority_counter,
                       net_ns, looked>>
        /\ UNCHANGED <<engineVars, ret, lockVars, concVars,
                       configVars, tracker_delays, cpu_borrow>>

\* Host::free_all_applications(): the process table is taken, which leaves
\* it empty, and every process in it is stopped and freed.
free_all_applications ==
    /\ Callable
    /\ processes' = {}
    /\ UNCHANGED <<panicked, net_ns, looked, counterVars>>
    /\ UNCHANGED lifeFrame

\* A shutdown that does not look at the process table.
shutdown_unchecked ==
    /\ Callable
    /\ net_ns' = "none"
    /\ UNCHANGED <<panicked, processes, looked, counterVars>>
    /\ UNCHANGED lifeFrame

\* Host::shutdown(): the namespace is replaced by None, and then the process
\* table is asserted to be empty.
shutdown ==
    /\ Callable
    /\ net_ns' = "none"
    /\ panicked' = (processes # {})
    /\ UNCHANGED <<processes, looked, counterVars>>
    /\ UNCHANGED lifeFrame

\* The result of a call that reads the namespace: with the namespace gone
\* `as_ref().unwrap()` or `as_mut().unwrap()` panics and nothing is
\* returned; otherwise the call returns, some being whether it returns a
\* Some.
NamespaceRead(op, addr, some) ==
    /\ Callable
    /\ IF net_ns = "none"
       THEN /\ panicked' = TRUE
            /\ looked' = looked
       ELSE /\ panicked' = panicked
            /\ looked' = [op |-> op, addr |-> addr, some |-> some]
    /\ UNCHANGED <<processes, net_ns, counterVars>>
    /\ UNCHANGED lifeFrame

\* Host::interface(addr)
interface(addr) ==
    NamespaceRead("interface", addr, NetworkNamespace_interface(addr))

\* Host::interface_mut(addr)
interface_mut(addr) ==
    NamespaceRead("interface_mut", addr, NetworkNamespace_interface(addr))

\* Host::default_ip(), abstract_unix_namespace(), network_namespace()
namespace_accessor(op) == NamespaceRead(op, "none", TRUE)

\* The host from Host::new to shutdown(): applications are added and freed,
\* the namespace is asked for interfaces.
NextLife ==
    \/ \E wraps \in BOOLEAN : add_application(wraps) /\ UNCHANGED twinVars
    \/ free_all_applications /\ UNCHANGED twinVars
    \/ shutdown /\ UNCHANGED twinVars
    \/ \E a \in Addresses : interface(a) /\ UNCHANGED twinVars
    \/ \E a \in Addresses : interface_mut(a) /\ UNCHANGED twinVars
    \/ \E op \in NamespaceAccessors :
           namespace_accessor(op) /\ UNCHANGED twinVars
    \/ boot /\ UNCHANGED twinVars

\* The host with or without a heartbeat interval in its parameters.
LifeInit ==
    /\ \E hp \in CpuParameters : Host_new(hp)
    /\ SingleRun
    /\ input = NoInput

SpecLife == LifeInit /\ [][NextLife]_vars

\* ------------------------------------------------------------- claims

ExecutedSeqs == {executed[i].seq : i \in 1 .. Len(executed)}

\* The events run are in ascending (time, sequence) order.
RunInKeyOrder ==
    \A i, j \in 1 .. Len(executed) : i < j => KeyLess(executed[i], executed[j])

\* C1 as stated: over any sequence of scheduling calls and execute() calls,
\* the times of the events run never decrease and events run with equal
\* times are run in creation-sequence order.
C1_AnyCallsRunInOrder == RunInKeyOrder

\* C1, amended: the events run are in ascending (time, sequence) order as
\* long as no call has scheduled an event at a time earlier than the time of
\* an event that was already run.
C1_RunInOrderUnlessPastPush == ~pastPush => RunInKeyOrder

\* C1 witness: three events were run in order, one created later than the
\* event run after it, with no push into the past.
C1_Witness ==
    /\ ~pastPush
    /\ Len(executed) >= 3
    /\ \E i \in 1 .. Len(executed) - 1 :
           /\ executed[i].time < executed[i + 1].time
           /\ executed[i].seq > executed[i + 1].seq

\* C2: execute(until) returns only from a peek that finds the queue empty
\* or its least time at or after until, and the queue it leaves holds no
\* event with a time before until.
C2_ReturnsOnlyWhenNothingDue ==
    [][(pc = "peek" /\ pc' = "idle") =>
           /\ \A e \in event_queue : e.time >= until
           /\ \A e \in event_queue' : e.time >= until]_vars

\* C2 witness: execute() has run an event in this call and is at the peek
\* from which it returns, an event at or after until still waiting.
C2_Witness ==
    /\ pc = "peek"
    /\ Len(executed) > callStart.nexec
    /\ event_queue # {}
    /\ \A e \in event_queue : e.time >= until

PushOps == {"push_local_event", "schedule_task_at_emulated_time"}

\* C3: push_local_event, and schedule_task_at_emulated_time for its time t,
\* return false and leave the queue as it was exactly when the time is at or
\* after sim_end_time; otherwise they insert that one event and return true.
C3_PushRejectsAtHorizon ==
    [][(ret' # ret /\ ret'.op \in PushOps) =>
           LET e == [time |-> ret'.time, seq |-> ret'.seq] IN
           /\ ret'.ok = (ret'.time < SimEndTime)
           /\ ~ret'.ok => event_queue' = event_queue
           /\ ret'.ok => /\ e \notin event_queue
                         /\ event_queue' = event_queue \cup {e}]_vars

\* C3 witness: a push at exactly sim_end_time was rejected, an event pushed
\* earlier being in the queue.
C3_Witness ==
    /\ ret.op = "push_local_event"
    /\ ret.time = SimEndTime
    /\ ~ret.ok
    /\ event_queue # {}

\* The event the last reschedule made: the popped event, its time advanced
\* by the delay that was owed.
LastRescheduled ==
    [time |-> lastIter.ev.time + lastIter.delay, seq |-> lastIter.ev.seq]

\* A reschedule has just ended the loop iteration.
AfterReschedule == pc = "peek" /\ lastIter.kind = "resched"

\* C4 as stated: whenever an event is popped while a delay is owed, the event
\* is in the queue again, its time advanced, when the iteration ends,
\* whatever the event time, the delay and sim_end_time.
C4_RescheduledAlwaysRequeued ==
    AfterReschedule => LastRescheduled \in event_queue

\* C4, amended: when the iteration ends the rescheduled event is in the
\* queue again, once, with its time advanced, if the advanced time is
\* before sim_end_time; if the advanced time is at or after sim_end_time the
\* re-push is rejected and the event is in the queue no more.
C4_RequeuedUnlessPastHorizon ==
    AfterReschedule =>
        /\ lastIter.delay > 0
        /\ LastRescheduled.time < SimEndTime =>
               /\ LastRescheduled \in event_queue
               /\ \A e \in event_queue :
                      e.seq = LastRescheduled.seq => e = LastRescheduled
        /\ LastRescheduled.time >= SimEndTime =>
               /\ \A e \in event_queue : e.seq # LastRescheduled.seq
               /\ LastRescheduled \in dropped

\* C4 witness: an event was popped while a delay was owed and is back in
\* the queue at the advanced time, other events waiting with it.
C4_Witness ==
    /\ AfterReschedule
    /\ LastRescheduled \in event_queue
    /\ Cardinality(event_queue) >= 2

\* execute(until) returns, its until at or after the simulation end.
FinalReturn == pc = "peek" /\ pc' = "idle" /\ until >= SimEndTime

\* The event with sequence s was rejected at a re-push, its time advanced to
\* or beyond the simulation end.
DroppedAtHorizon(s) == \E e \in dropped : e.seq = s /\ e.time >= SimEndTime

\* C5: an accepted event is never cancelled: when execute() has been run up
\* to the simulation end, no event is left in the queue and the task of
\* every accepted event has been executed, unless the event's time (as CPU
\* reschedules advanced it) came to lie at or after the simulation end.
C5_AcceptedExecutedByTheEnd ==
    [][FinalReturn =>
           /\ event_queue = {}
           /\ \A s \in accepted :
                  (s \in ExecutedSeqs) # DroppedAtHorizon(s)]_vars

\* C5 witness: execute() is about to return from a run up to the simulation
\* end: three events were accepted, two are executed and one was advanced
\* beyond the simulation end.
C5_Witness ==
    /\ pc = "peek"
    /\ until >= SimEndTime
    /\ event_queue = {}
    /\ Cardinality(accepted) >= 3
    /\ dropped # {}
    /\ Len(executed) >= 2

\* Where in the execution order the event with sequence s was run.
RunIndex(s) == CHOOSE i \in 1 .. Len(executed) : executed[i].seq = s

\* C6 as stated: if A was ordered before B when A was popped and pushed back
\* for CPU delay, A's task is still executed before B's task.
C6_RescheduleKeepsOrder ==
    \A p \in overtake :
        p[2] \in ExecutedSeqs =>
            /\ p[1] \in ExecutedSeqs
            /\ RunIndex(p[1]) < RunIndex(p[2])

\* C6, amended: a rescheduled event A takes its place in the queue by its
\* advanced time and its sequence.  Of A and an event B that waited behind
\* A when A was pushed back, the one whose task is run while the other still
\* waits is the one with the lower (time, sequence) key at that moment: B
\* runs before A when A's advanced key is above B's key.
C6_RescheduleOrdersByAdvancedKey ==
    [][(pc = "cpu" /\ pc' = "run") =>
           \A p \in overtake' : \A w \in event_queue' :
               \/ (p[1] = event'.seq /\ p[2] = w.seq)
               \/ (p[2] = event'.seq /\ p[1] = w.seq)
               => KeyLess(event', w)]_vars

\* C6 witness: B's task runs while A, rescheduled when it was ahead of B,
\* waits in the queue at its advanced time.
C6_Witness ==
    /\ pc = "run"
    /\ \E p \in overtake : \E a \in event_queue :
           /\ p[2] = event.seq
           /\ p[1] = a.seq
           /\ KeyLess(event, a)

\* C7: in an iteration of execute(), once the CPU model is advanced to the
\* popped event's time: with a delay owed the task is not run, the event's
\* time grows by exactly that delay, the event goes back through
\* push_local_event and the loop continues; with no delay owed the task is
\* run and the event is not pushed back.
C7_IterationReschedulesOrRuns ==
    [][pc = "cpu" =>
           LET d == Cpu_delay(Cpu_update_time(cpu, event.time))
               e == [time |-> event.time + d, seq |-> event.seq]
           IN  /\ d > 0 =>
                      /\ executed' = executed
                      /\ current_time' = NoTime
                      /\ pc' = "peek"
                      /\ event_queue' = IF e.time < SimEndTime
                                        THEN event_queue \cup {e}
                                        ELSE event_queue
               /\ d = 0 =>
                      /\ executed' = Append(executed, event)
                      /\ current_time' = event.time
                      /\ pc' = "run"
                      /\ event_queue' = event_queue]_vars

\* C7 witness: an iteration rescheduled an event by the owed delay and did
\* not run it, after an iteration that ran an event.
C7_Witness ==
    /\ AfterReschedule
    /\ lastIter.pushed
    /\ lastIter.delay > 0
    /\ lastIter.ev.seq \notin ExecutedSeqs
    /\ executed # <<>>

\* The events of S in ascending (time, sequence) order.
RECURSIVE SortedByKey(_)
SortedByKey(S) ==
    IF S = {} THEN <<>>
    ELSE LET m == CHOOSE e \in S : \A f \in S : KeyLeq(e, f)
         IN  <<m>> \o SortedByKey(S \ {m})

\* The events the execute() call in progress has run so far.
RunThisCall == SubSeq(executed, callStart.nexec + 1, Len(executed))

\* C8: with every event pushed before the call, no CPU delay owed and tasks
\* that push nothing, execute(until) runs exactly the events with a time
\* before until, in ascending (time, sequence) order.
C8_RunsDueEventsInKeyOrder ==
    [][(pc = "peek" /\ pc' = "idle" /\ callPure) =>
           RunThisCall =
               SortedByKey({e \in callStart.queue : e.time < until})]_vars

\* C8 witness: the queue held three events, the one pushed last with the
\* earliest time and two with equal times; execute() is about to return
\* having run the earliest first and the equal-time pair in insertion order.
C8_Witness ==
    /\ pc = "peek"
    /\ callPure
    /\ ~Due(event_queue, until)
    /\ Len(RunThisCall) = 3
    /\ RunThisCall[1].seq = 2
    /\ RunThisCall[2].seq = 0
    /\ RunThisCall[3].seq = 1
    /\ RunThisCall[1].time < RunThisCall[2].time
    /\ RunThisCall[2].time = RunThisCall[3].time

\* C9: each pop returns the event with the least (time, sequence) key of the
\* queue and removes only it, so successive pops with no push in between
\* return events in ascending key order.
C9_PopReturnsMinimum ==
    [][(pc = "peek" /\ pc' = "cpu") =>
           /\ event' \in event_queue
           /\ \A f \in event_queue : KeyLeq(event', f)
           /\ event_queue' = event_queue \ {event'}
           /\ (lastPop # NoEvent /\ ~pushedSincePop) =>
                  KeyLess(lastPop, event')]_vars

\* C9 witness: a second pop in a row, no push in between, returned an event
\* created before the one popped first, other events still waiting.
C9_Witness ==
    /\ pc = "cpu"
    /\ Len(RunThisCall) >= 1
    /\ ~pushedSincePop
    /\ KeyLess(Last(executed), event)
    /\ event.seq < Last(executed).seq
    /\ event_queue # {}

\* C10: next_event_time() returns none for an empty queue and otherwise the
\* time of the event the next pop returns, the queue not being modified
\* between the two calls.
C10_PeekIsTimeOfNextPop ==
    [][/\ peeked' # Stale =>
              /\ event_queue' = {} <=> peeked' = NoTime
              /\ event_queue' # {} =>
                     peeked' = EventQueue_pop(event_queue').time
       /\ (pc = "peek" /\ pc' = "cpu" /\ peeked # Stale) =>
              event'.time = peeked]_vars

\* C10 witness: next_event_time() returned the time of the event created
\* last, the least in the queue, and with the queue untouched since,
\* execute() is about to pop.
C10_Witness ==
    /\ pc = "peek"
    /\ peeked # Stale
    /\ peeked # NoTime
    /\ peeked < until
    /\ Cardinality(event_queue) >= 2
    /\ \E e \in event_queue :
           /\ e.time = peeked
           /\ \A f \in event_queue \ {e} : f.time > e.time /\ f.seq < e.seq

\* The events of the sequence s.
Range(s) == {s[i] : i \in 1 .. Len(s)}

NoEventLost ==
    /\ Range(popped) \cup event_queue = PushedEvents
    /\ Range(popped) \cap event_queue = {}
    /\ Cardinality(Range(popped)) = Len(popped)

\* C13: with producer threads pushing while execute() runs, the pop under
\* the lock of the peek never finds the queue empty, no pushed event is
\* lost, and the popped event is the least of the queue at that moment and
\* has a time before until.
C13_PopUnderTheLockOfThePeek ==
    [][/\ pc = "due" =>
              /\ event_queue # {}
              /\ ~panicked'
              /\ pc' = "run"
              /\ event' \in event_queue
              /\ \A f \in event_queue : KeyLeq(event', f)
              /\ event'.time < until
              /\ event_queue' = event_queue \ {event'}
       /\ NoEventLost']_vars

\* C13 witness: execute() has popped its second event, a push having ended
\* since its first pop and another thread being in the middle of its push.
C13_Witness ==
    /\ pc = "run"
    /\ racing
    /\ Len(popped) >= 2
    /\ event = Last(popped)
    /\ queue_mutex # {}

\* C14: while execute() runs a task, the published current time is the time
\* of that task's event; at every other moment of an execute() call, and
\* once execute() has returned, no current time is published.
C14_CurrentTimeOnlyWhileTaskRuns ==
    ~panicked =>
        /\ pc = "run" =>
               /\ event = Last(executed)
               /\ current_time = event.time
        /\ pc # "run" => current_time = NoTime

\* C14 witness: the second task of an execute() call runs, at a time later
\* than the first, and the current time is its event's time.
C14_Witness ==
    /\ pc = "run"
    /\ ~panicked
    /\ Len(RunThisCall) >= 2
    /\ current_time = event.time
    /\ current_time > executed[Len(executed) - 1].time

\* C15 as stated: after execute() is left because a task panicked, no
\* current time remains published.
C15_ClearedAfterTaskPanic ==
    (panicked /\ pc = "idle") => current_time = NoTime

\* C15 witness: execute() was left by the panic of its second task and the
\* time of that task's event is still published.
C15_Witness ==
    /\ panicked
    /\ pc = "idle"
    /\ Len(executed) >= 2
    /\ current_time = Last(executed).time

\* The host's own state: the queue, the CPU model, the event id counter, the
\* cached guard with the mutex it holds, and the published current time.
HostState == <<event_queue, cpu, event_id_counter, shim_shmem_lock,
               shmem_mutex, current_time>>

C17_GuardOnlyWhileSimulatorHolds ==
    /\ ~(shim_shmem_lock /\ shim_holds)
    /\ shim_shmem_lock => shmem_mutex = "locked"
    /\ shim_holds => shmem_mutex = "locked"

\* C17 witness: the simulator holds the lock a second time, its guard
\* cached, and has read the protected data through host_getShimShmemLock.
C17_Witness ==
    /\ shim_shmem_lock
    /\ shmem_mutex = "locked"
    /\ ~shim_holds
    /\ lock_pairs >= 1
    /\ ret.op = "host_getShimShmemLock"
    /\ ret.ok

\* A call of unlock_shmem() has just ended.
UnlockStep == ret' # ret /\ ret'.op = "unlock_shmem"

\* C18: unlock_shmem() with no guard cached is fatal: it ends in the failed
\* assertion and never returns; with a guard cached it returns.
C18_UnlockWithoutGuardIsFatal ==
    [][UnlockStep =>
           /\ ~shim_shmem_lock => (panicked' /\ ~ret'.ok)
           /\ shim_shmem_lock => (~panicked' /\ ret'.ok)
           /\ ret'.ok = shim_shmem_lock]_vars

\* C18 witness: an unlock_shmem() with no guard cached, after a balanced
\* lock/unlock pair, has ended in the failed assertion.
C18_Witness ==
    /\ ret.op = "unlock_shmem"
    /\ ~ret.ok
    /\ panicked
    /\ lock_pairs >= 1

\* C19: lock_shmem() followed by unlock_shmem() brings the lock protocol
\* back to its initial state, the cached guard empty and the mutex
\* unlocked, after every pair; the lock_shmem() that follows a pair returns
\* with the guard cached.
C19_LockUnlockRestoresInitial ==
    [][/\ (UnlockStep /\ ret'.ok) =>
              /\ ~shim_shmem_lock'
              /\ shmem_mutex' = "unlocked"
              /\ ~shim_holds'
              /\ ~lock_wait'
              /\ ~panicked'
              /\ lock_pairs' = lock_pairs + 1
       /\ (ret' # ret /\ ret'.op = "lock_shmem") =>
              /\ ret'.ok
              /\ shim_shmem_lock'
              /\ shmem_mutex' = "locked"
              /\ ~panicked']_vars

\* C19 witness: the second lock/unlock pair in a row has ended.
C19_Witness ==
    /\ lock_pairs >= 2
    /\ ret.op = "unlock_shmem"
    /\ ret.ok
    /\ ~shim_shmem_lock
    /\ shmem_mutex = "unlocked"

\* C20: dropping the Host while a guard is cached ends in the failed
\* assertion, dropping it with no guard cached passes, and the shared block
\* is never destroyed while a guard on it exists.
C20_DropWithGuardIsFatal ==
    [][/\ (ret' # ret /\ ret'.op = "drop") =>
              /\ shim_shmem_lock => (panicked' /\ ~ret'.ok)
              /\ ~shim_shmem_lock =>
                     (~panicked' /\ ret'.ok /\ shmem_block' = "destroyed")
       /\ ~(shmem_block' = "destroyed" /\ shim_shmem_lock')]_vars

\* C20 witness: the Host was dropped with a guard cached, after a balanced
\* lock/unlock pair, and the drop ended in the failed assertion.
C20_Witness ==
    /\ ret.op = "drop"
    /\ ~ret.ok
    /\ panicked
    /\ lock_pairs >= 1

\* C21: host_getShimShmemLock returns the protected data exactly when a guard
\* is cached, and then the mutex is locked and not by the shim; with no guard
\* cached, before any lock_shmem() or after unlock_shmem(), it panics.
C21_GetLockNeedsCachedGuard ==
    [][(ret' # ret /\ ret'.op = "host_getShimShmemLock") =>
           /\ ret'.ok = shim_shmem_lock
           /\ panicked' = ~shim_shmem_lock
           /\ ret'.ok => (shmem_mutex = "locked" /\ ~shim_holds)]_vars

\* C21 witness: host_getShimShmemLock was called after unlock_shmem() had
\* given the guard back, and panicked.
C21_Witness ==
    /\ ret.op = "host_getShimShmemLock"
    /\ ~ret.ok
    /\ panicked
    /\ lock_pairs >= 1
    /\ ~shim_shmem_lock

\* The values counter c returned are strictly increasing, none repeated.
StrictlyIncreasing(s) == \A i, j \in 1 .. Len(s) : i < j => s[i] < s[j]

\* C22: for each counter, the values its calls return are strictly
\* increasing with no repeats, whatever calls of the other counters come in
\* between, and a call of one counter changes neither the next value of
\* another counter nor what the other has returned.
C22_CountersStrictlyIncrease ==
    [][\A c \in Counters :
           issued'[c] # issued[c] =>
               /\ StrictlyIncreasing(issued'[c])
               /\ \A o \in Counters \ {c} :
                      /\ CounterValue(o)' = CounterValue(o)
                      /\ issued'[o] = issued[o]]_vars

\* C22 witness: calls of the process id counter, with calls of every other
\* counter made in between them, went past the greatest value of the u32
\* without a panic.
C22_Witness ==
    /\ ~panicked
    /\ Len(issued["process_id"]) > ProcessIdsToTop
    /\ \A c \in Counters : issued[c] # <<>>

\* C23: the first get_new_process_id() returns 1000 and no call of it ever
\* returns a process id below 1000.
C23_ProcessIdsNotBelowFloor ==
    LET ids == issued["process_id"] IN
    /\ ids # <<>> => ids[1] = FirstProcessId
    /\ \A i \in 1 .. Len(ids) : ids[i] >= FirstProcessId

\* C23 witness: the call that follows the one that returned the greatest
\* value of the u32 has returned.
C23_Witness ==
    LET ids == issued["process_id"] IN
    /\ ~panicked
    /\ Len(ids) = ProcessIdsToTop + 1
    /\ ids[ProcessIdsToTop] = U32Max

\* The loop iteration that holds a popped event ends without running it.
Rescheduling == pc = "cpu" /\ executed' = executed

\* The events that entered the queue, or were rejected at their re-push, in
\* this step.
Repushed == (event_queue' \ event_queue) \cup (dropped' \ dropped)

\* C24: each time execute() reschedules an event, the event is pushed back
\* with a delay added to its time, and the tracker, if the host has one, is
\* notified once, of that delay; without a tracker the event is rescheduled
\* the same way and nothing is notified; no other step, the run of an event
\* least of all, notifies the tracker.
C24_TrackerToldEachRescheduleDelay ==
    [][/\ Rescheduling =>
              \E e \in Repushed :
                  /\ Repushed = {e}
                  /\ e.seq = event.seq
                  /\ e.time > event.time
                  /\ tracker_delays' =
                         (IF tracker = "none" THEN tracker_delays
                          ELSE Append(tracker_delays, e.time - event.time))
       /\ ~Rescheduling => tracker_delays' = tracker_delays]_vars

\* C24 witness: a host with a tracker has rescheduled an event and run
\* another, and the tracker was notified of the delay of the reschedule.
C24_Witness ==
    /\ tracker = "some"
    /\ lastIter.kind = "resched"
    /\ tracker_delays # <<>>
    /\ Last(tracker_delays) = lastIter.delay
    /\ executed # <<>>

\* The delay the CPU model owes at the time of the event execute() holds.
Owed == Cpu_update_time(cpu, event.time).accumulated_delay

\* The event execute() holds is popped with 55 ns owed by a CPU model of
\* threshold 100 ns and precision 10 ns.
Owes55 ==
    /\ pc = "cpu"
    /\ cpu.threshold = 100
    /\ cpu.precision = 10
    /\ Owed = 55

\* C25 as stated: with a threshold of 100 ns and a precision of 10 ns, an
\* event popped when 55 ns are owed is not run in that iteration: it is back
\* in the queue at its time + 50 ns, and the tracker, if the host has one, is
\* notified of 50 ns and of nothing else.
C25_Owed55Requeued50Later ==
    [][Owes55 =>
           /\ executed' = executed
           /\ pc' = "peek"
           /\ event_queue' =
                  event_queue \cup {[event EXCEPT !.time = event.time + 50]}
           /\ tracker_delays' =
                  (IF tracker = "none" THEN tracker_delays
                   ELSE Append(tracker_delays, 50))]_vars

\* C25 as the code has it: the event is not run in that iteration and the
\* tracker, if the host has one, is notified of 50 ns; the event is back in
\* the queue at its time + 50 ns when that time is before sim_end_time, and
\* otherwise its re-push is rejected and the event is in the queue no more.
C25_Owed55Requeued50LaterUnlessPastHorizon ==
    [][Owes55 =>
           LET e == [event EXCEPT !.time = event.time + 50] IN
           /\ executed' = executed
           /\ pc' = "peek"
           /\ e.time < sim_end_time =>
                  (event_queue' = event_queue \cup {e} /\ dropped' = dropped)
           /\ e.time >= sim_end_time =>
                  (event_queue' = event_queue /\ dropped' = dropped \cup {e})
           /\ tracker_delays' =
                  (IF tracker = "none" THEN tracker_delays
                   ELSE Append(tracker_delays, 50))]_vars

\* C25 witness: on a host with a tracker, the event of time 0 was popped
\* with 55 ns owed and is in the queue at time 50; the tracker was notified.
C25_Witness ==
    /\ cpu.threshold = 100
    /\ cpu.precision = 10
    /\ tracker = "some"
    /\ lastIter.kind = "resched"
    /\ lastIter.ev.time = 0
    /\ cpu.accumulated_delay = 55
    /\ [lastIter.ev EXCEPT !.time = 50] \in event_queue
    /\ tracker_delays = <<50>>

\* C26: the delay the CPU model owes is never negative; an event popped when
\* less than the precision is owed is run, not rescheduled; an event popped
\* when the threshold or more is owed is rescheduled, not run.
C26_BelowPrecisionRunsAtThresholdReschedules ==
    [][/\ cpu.accumulated_delay >= 0
       /\ cpu'.accumulated_delay >= 0
       /\ pc = "cpu" =>
              /\ Owed >= 0
              /\ Owed < cpu.precision =>
                     (executed' = Append(executed, event) /\ Repushed = {})
              /\ Owed >= cpu.threshold =>
                     (executed' = executed /\ Repushed # {})]_vars

\* C26 witness: one event was rescheduled with the threshold or more owed,
\* and an event was then run with a delay below the precision still owed.
C26_Witness ==
    /\ pc = "run"
    /\ lastIter.kind = "run"
    /\ cpu.accumulated_delay > 0
    /\ cpu.accumulated_delay < cpu.precision
    /\ \E i \in 1 .. Len(tracker_delays) : tracker_delays[i] >= cpu.threshold

\* s is the beginning of t.
IsPrefix(s, t) == Len(s) <= Len(t) /\ \A i \in 1 .. Len(s) : s[i] = t[i]

C28_NothingRunsAtOrPastHorizon ==
    /\ \A i \in 1 .. Len(executed) : executed[i].time < sim_end_time
    /\ current_time # NoTime => current_time < sim_end_time

\* C28 witness: under an execute() whose until lies beyond the horizon, an
\* event that was rescheduled is running at the last time before the
\* horizon.
C28_Witness ==
    /\ pc = "run"
    /\ until > sim_end_time
    /\ event.time = sim_end_time - 1
    /\ \E o \in overtake : o[1] = event.seq

\* C29: schedule_task_with_delay(task, d) called from inside a running task
\* makes an event at the time of the event being executed + d and returns
\* what push_local_event returns for that time, the event in the queue when
\* the time is before sim_end_time and the queue as it was otherwise; called
\* with no current time published, which is so outside any task, it panics
\* and pushes nothing.
C29_DelayCountsFromRunningEvent ==
    [][/\ \A d \in 0 .. MaxAddDelay :
              schedule_task_with_delay(d) =>
                  LET e == Event_new(event.time + d, event_id_counter) IN
                  /\ pc = "run"
                  /\ ret'.time = e.time
                  /\ ret'.ok = (e.time < sim_end_time)
                  /\ event_queue' =
                         (IF ret'.ok THEN event_queue \cup {e}
                          ELSE event_queue)
                  /\ ~panicked'
       /\ schedule_task_with_delay_panic =>
              /\ pc = "idle"
              /\ panicked'
              /\ event_queue' = event_queue
              /\ event_id_counter' = event_id_counter
              /\ accepted' = accepted
       /\ (Callable /\ pc = "idle") =>
              /\ current_time = NoTime
              /\ ENABLED schedule_task_with_delay_panic
              /\ \A d \in 0 .. MaxAddDelay :
                     ~ENABLED schedule_task_with_delay(d)
       /\ (Callable /\ pc = "run") =>
              ~ENABLED schedule_task_with_delay_panic]_vars

\* C29 witness: the task of an event of a time after 0 has called
\* schedule_task_with_delay with a delay above 0, and the new event is in the
\* queue at the sum of the two.
C29_Witness ==
    /\ pc = "run"
    /\ event.time > 0
    /\ ret.op = "schedule_task_with_delay"
    /\ ret.ok
    /\ ret.time > event.time
    /\ [time |-> ret.time, seq |-> ret.seq] \in event_queue

\* The number of places in which the event of creation sequence s is: the
\* queue, the hands of the execute() loop between its pop and its re-push
\* or run, the events executed, the events rejected at their re-push.
Places(s) ==
    Cardinality({e \in event_queue : e.seq = s})
    + (IF pc = "cpu" /\ event.seq = s THEN 1 ELSE 0)
    + Cardinality({i \in 1 .. Len(executed) : executed[i].seq = s})
    + Cardinality({e \in dropped : e.seq = s})

\* Every accepted event is in one place, and no other event is anywhere.
InOnePlace ==
    \A s \in 0 .. MaxEvents - 1 :
        Places(s) = (IF s \in accepted THEN 1 ELSE 0)

\* C30: events are neither duplicated nor executed twice: each event that
\* push_local_event accepted is in exactly one place, in the queue once,
\* held by the execute() loop, executed once, or rejected at its re-push;
\* and the iteration that reschedules an event does not execute it.
C30_EachEventInOnePlace ==
    [][/\ InOnePlace
       /\ InOnePlace'
       /\ (pc = "cpu" /\ Repushed # {}) =>
              /\ executed' = executed
              /\ pc' = "peek"
              /\ current_time' = NoTime]_vars

\* C30 witness: of three accepted events one is executed, one is back in
\* the queue after having been rescheduled, and one is held by the loop.
C30_Witness ==
    /\ pc = "cpu"
    /\ Cardinality(accepted) = 3
    /\ Len(executed) = 1
    /\ Cardinality(event_queue) = 1
    /\ \E o \in overtake : \E e \in event_queue : e.seq = o[1]

\* A producer thread that has an event to push, with no other producer
\* inside the queue's mutex.
CanPush(p) ==
    /\ progress[p] < Len(input[p])
    /\ queue_mutex \cap Producers = {}

\* C31: execute() holds neither the event queue's mutex nor the borrow of the
\* CPU model while a task runs, and does not hold the mutex when it pushes a
\* rescheduled event back: no lock of the mutex by the host's thread finds
\* the thread holding it (the thread is never stuck and never panics), no
\* borrow_mut() of the CPU model finds it borrowed, and while a task runs a
\* producer thread with an event to push can take the mutex.
C31_NoLockNoBorrowWhileTaskRuns ==
    /\ pc # "stuck"
    /\ ~panicked
    /\ pc \in {"run", "cpu", "popped", "peek", "idle"} =>
           HostThread \notin queue_mutex
    /\ pc \in {"run", "popped", "peek", "idle"} => ~cpu_borrow
    /\ pc = "run" =>
           \A p \in Producers : CanPush(p) => ENABLED Producer_lock(p)

\* C31 witness: a task runs, after a task has scheduled an event on its own
\* host which was accepted, and after an event was pushed back by a
\* reschedule; the running task has added CPU delay, and a producer thread
\* is inside the queue's mutex.
C31_Witness ==
    /\ pc = "run"
    /\ accepted # {}
    /\ Len(popped) > Len(executed)
    /\ cpu.accumulated_delay > 0
    /\ queue_mutex \cap Producers # {}
    /\ ~panicked

\* C32: execute(until) terminates when tasks and other threads push finitely
\* many events: a reschedule puts the event back with a time strictly after
\* the time it had, and every call of execute() returns.
C32_ExecuteTerminates ==
    /\ [][(pc = "cpu" /\ pc' = "peek") =>
              \E e \in Repushed :
                  /\ Repushed = {e}
                  /\ e.seq = event.seq
                  /\ e.time > event.time]_vars
    /\ (pc # "idle") ~> (pc = "idle" /\ ~panicked)

\* C32 witness: an execute() call has returned after it rescheduled an
\* event and ran tasks, one of which scheduled an event on the host, while
\* the producer threads pushed all they had.
C32_Witness ==
    /\ pc = "idle"
    /\ ~panicked
    /\ Len(executed) >= 2
    /\ Len(popped) > Len(executed)
    /\ accepted # {}
    /\ \A p \in Producers : progress[p] = Len(input[p])

\* A call of this step reads the namespace: interface(), interface_mut()
\* or one of the other accessors.
ReadsNamespace ==
    \/ \E a \in Addresses : interface(a) \/ interface_mut(a)
    \/ \E op \in NamespaceAccessors : namespace_accessor(op)
    \/ boot

\* C33: shutdown() ends in a failed assertion unless the process table is
\* empty, and free_all_applications() leaves the table empty; shutdown()
\* leaves the host without its namespace; from then on interface(),
\* interface_mut() and the other accessors of the namespace panic and return
\* nothing, while before shutdown they return, and interface() and
\* interface_mut() return None for an address that no interface has.
C33_ShutdownNeedsEmptyTableAndEndsNamespace ==
    [][/\ shutdown => (panicked' <=> processes # {}) /\ net_ns' = "none"
       /\ free_all_applications =>
              /\ processes' = {}
              /\ ~panicked'
       /\ (net_ns = "none" /\ ReadsNamespace) =>
              panicked' /\ looked' = looked
       /\ (net_ns = "some" /\ ReadsNamespace) => ~panicked'
       /\ \A a \in Addresses :
              (net_ns = "some" /\ (interface(a) \/ interface_mut(a))) =>
                  /\ looked'.addr = a
                  /\ looked'.some = NetworkNamespace_interface(a)
       /\ net_ns' = "none" => net_ns = "none" \/ shutdown]_vars

\* C33 witness: applications were added and freed, interface() returned
\* None for an address without an interface, shutdown() went through with
\* the process table empty, and a later read of the namespace panicked.
C33_Witness ==
    /\ net_ns = "none"
    /\ panicked
    /\ processes = {}
    /\ Len(issued["process_id"]) = MaxProcesses
    /\ looked.op = "interface"
    /\ looked.addr = "other"
    /\ ~looked.some

====
